---------------------------- MODULE Spec2Model ----------------------------
(***************************************************************************)
(* Model of the customer_agent backend: the SQL safety layer               *)
(* (sql_query_service.py) and the routing / conversation protocol of       *)
(* main.py.  Text is modelled as a sequence of one-character strings so    *)
(* that the regular expressions and the str methods of the source are      *)
(* computed, not assumed.                                                   *)
(***************************************************************************)
EXTENDS Integers, Sequences, FiniteSets, TLC

(***************************************************************************)
(* Characters and the str / re primitives the source uses.                 *)
(***************************************************************************)
LowerChars == <<"a", "b", "c", "d", "e", "f", "g", "h", "i", "j", "k", "l", "m", "n", "o", "p", "q", "r", "s", "t", "u", "v", "w", "x", "y", "z">>

UpperChars == <<"A", "B", "C", "D", "E", "F", "G", "H", "I", "J", "K", "L", "M", "N", "O", "P", "Q", "R", "S", "T", "U", "V", "W", "X", "Y", "Z">>

DigitChars == <<"0", "1", "2", "3", "4", "5", "6", "7", "8", "9">>

Range(f) == {f[i] : i \in DOMAIN f}

\* str.upper() on one character
UpperChar(c) ==
  IF c \in Range(LowerChars)
    THEN UpperChars[CHOOSE i \in DOMAIN LowerChars : LowerChars[i] = c]
    ELSE c

\* str.lower() on one character
LowerChar(c) ==
  IF c \in Range(UpperChars)
    THEN LowerChars[CHOOSE i \in DOMAIN UpperChars : UpperChars[i] = c]
    ELSE c

\* str.upper()
Upper(s) == [i \in DOMAIN s |-> UpperChar(s[i])]

\* str.lower()
Lower(s) == [i \in DOMAIN s |-> LowerChar(s[i])]

\* the regex class \w
IsWord(c) == c \in Range(LowerChars) \cup Range(UpperChars) \cup Range(DigitChars) \cup {"_"}

\* the regex class \s
IsSpace(c) == c \in {" ", "\t", "\n"}

\* the regex class [a-zA-Z_]
IsIdentStart(c) == c \in Range(LowerChars) \cup Range(UpperChars) \cup {"_"}

\* the regex class [a-zA-Z0-9_]
IsIdentChar(c) == IsWord(c)

\* w occurs in s starting at index i
MatchAt(s, w, i) ==
  /\ i >= 1
  /\ i + Len(w) - 1 <= Len(s)
  /\ \A j \in 1..Len(w) : s[i + j - 1] = w[j]

\* the Python test  w in s
Contains(s, w) == \E i \in 1..(Len(s) + 1) : MatchAt(s, w, i)

\* the regex assertion \b taken just before index i of s
Boundary(s, i) ==
  LET before == i > 1 /\ i - 1 <= Len(s) /\ IsWord(s[i - 1])
      after  == i >= 1 /\ i <= Len(s) /\ IsWord(s[i])
  IN  before # after

\* \bw\b matches in s at index i
WordAt(s, w, i) ==
  /\ MatchAt(s, w, i)
  /\ Boundary(s, i)
  /\ Boundary(s, i + Len(w))

\* re.search(r'\b' + w + r'\b', s) finds a match
WordSearch(s, w) == \E i \in 1..Len(s) : WordAt(s, w, i)

\* the least element of a non-empty set of integers
Min(S) == CHOOSE x \in S : \A y \in S : x <= y

\* the greatest element of a non-empty set of integers
Max(S) == CHOOSE x \in S : \A y \in S : x >= y

\* index of the first character at or after i that is not whitespace
SkipSpace(s, i) ==
  Min({k \in i..(Len(s) + 1) : k > Len(s) \/ ~IsSpace(s[k])} \cup {Len(s) + 1})

\* index just after the longest run of identifier characters starting at i
SkipIdent(s, i) ==
  Min({k \in i..(Len(s) + 1) : k > Len(s) \/ ~IsIdentChar(s[k])} \cup {Len(s) + 1})

\* index just after the longest run of digits starting at i
SkipDigits(s, i) ==
  Min({k \in i..(Len(s) + 1) : k > Len(s) \/ s[k] \notin Range(DigitChars)} \cup {Len(s) + 1})

\* str.count(c) for a one-character c
Count(s, c) == Cardinality({i \in DOMAIN s : s[i] = c})

\* str.replace(old, new) applied to s[i..]: left to right, non-overlapping
RECURSIVE ReplaceFrom(_, _, _, _)
ReplaceFrom(s, old, new, i) ==
  LET hits == {k \in i..Len(s) : MatchAt(s, old, k)}
  IN  IF hits = {} THEN SubSeq(s, i, Len(s))
      ELSE SubSeq(s, i, Min(hits) - 1) \o new
           \o ReplaceFrom(s, old, new, Min(hits) + Len(old))

\* str.replace(old, new)
Replace(s, old, new) == ReplaceFrom(s, old, new, 1)

\* str.rstrip(';')
RStripSemi(s) == SubSeq(s, 1, Max({k \in 1..Len(s) : s[k] # ";"} \cup {0}))

\* str.strip()
Strip(s) ==
  LET keep == {k \in 1..Len(s) : ~IsSpace(s[k])}
  IN  IF keep = {} THEN <<>> ELSE SubSeq(s, Min(keep), Max(keep))

\* str(n) for a natural number
RECURSIVE IntToChars(_)
IntToChars(n) ==
  IF n < 10 THEN <<DigitChars[n + 1]>>
  ELSE IntToChars(n \div 10) \o <<DigitChars[(n % 10) + 1]>>

\* int(s) for a string of digits
RECURSIVE CharsToInt(_)
CharsToInt(s) ==
  IF s = <<>> THEN 0
  ELSE 10 * CharsToInt(SubSeq(s, 1, Len(s) - 1))
       + (CHOOSE d \in 0..9 : DigitChars[d + 1] = s[Len(s)])

\* Python's None where a name or a tag is expected
None == "None"

\* Python's None where a text is expected
NoText == <<>>

(***************************************************************************)
(* SqlQueryService: configuration                                           *)
(***************************************************************************)
\* SQL_ALLOWED_TABLES, default "orders"
allowed_tables == <<<<"o", "r", "d", "e", "r", "s">>>>

\* SQL_MAX_RESULTS, default 100
max_results == 100

\* the list without its data-modifying entries DELETE and UPDATE
blocked_keywords_without_dml ==
  << <<"I", "N", "S", "E", "R", "T">>, <<"D", "R", "O", "P">>, <<"A", "L", "T", "E", "R">>, <<"T", "R", "U", "N", "C", "A", "T", "E">>,
     <<"C", "R", "E", "A", "T", "E">>, <<"G", "R", "A", "N", "T">>, <<"R", "E", "V", "O", "K", "E">>, <<"E", "X", "E", "C", "U", "T", "E">>, <<"E", "X", "E", "C">>,
     <<"I", "N", "T", "O">>, <<"S", "E", "T">>, <<"M", "E", "R", "G", "E">>, <<"R", "E", "P", "L", "A", "C", "E">> >>

blocked_keywords ==
  << <<"I", "N", "S", "E", "R", "T">>, <<"U", "P", "D", "A", "T", "E">>, <<"D", "E", "L", "E", "T", "E">>, <<"D", "R", "O", "P">>, <<"A", "L", "T", "E", "R">>, <<"T", "R", "U", "N", "C", "A", "T", "E">>,
     <<"C", "R", "E", "A", "T", "E">>, <<"G", "R", "A", "N", "T">>, <<"R", "E", "V", "O", "K", "E">>, <<"E", "X", "E", "C", "U", "T", "E">>, <<"E", "X", "E", "C">>,
     <<"I", "N", "T", "O">>, <<"S", "E", "T">>, <<"M", "E", "R", "G", "E">>, <<"R", "E", "P", "L", "A", "C", "E">> >>

get_allowed_tables == [i \in DOMAIN allowed_tables |-> Strip(allowed_tables[i])]

(***************************************************************************)
(* SqlQueryService.validate_sql                                             *)
(***************************************************************************)
\* the loop over blocked_keywords: the first keyword of the list that occurs
\* as a whole word, or NoText
FirstBlockedKeyword(sql_upper) ==
  LET hits == {k \in DOMAIN blocked_keywords : WordSearch(sql_upper, blocked_keywords[k])}
  IN  IF hits = {} THEN NoText
      ELSE blocked_keywords[Min(hits)]

\* re.match(r'^\s*SELECT\s', sql_upper)
StartsWithSelect(sql_upper) ==
  LET i == SkipSpace(sql_upper, 1)
  IN  /\ MatchAt(sql_upper, <<"S", "E", "L", "E", "C", "T">>, i)
      /\ i + 6 <= Len(sql_upper)
      /\ IsSpace(sql_upper[i + 6])

\* \b<kw>\s+([a-zA-Z_][a-zA-Z0-9_]*) matches at index i
TableRefAt(s, kw, i) ==
  LET j == i + Len(kw)
      k == SkipSpace(s, j)
  IN  /\ MatchAt(s, kw, i)
      /\ Boundary(s, i)
      /\ k > j
      /\ k <= Len(s)
      /\ IsIdentStart(s[k])

\* re.findall(r'\b<kw>\s+([a-zA-Z_][a-zA-Z0-9_]*)', s), scanning from index i:
\* matches are taken left to right and do not overlap
RECURSIVE FindAllTables(_, _, _)
FindAllTables(s, kw, i) ==
  LET hits == {k \in i..Len(s) : TableRefAt(s, kw, k)}
  IN  IF hits = {} THEN <<>>
      ELSE LET k == SkipSpace(s, Min(hits) + Len(kw))
               e == SkipIdent(s, k)
           IN  <<SubSeq(s, k, e - 1)>> \o FindAllTables(s, kw, e)

\* table_matches
table_matches(sql_upper) ==
  FindAllTables(sql_upper, <<"F", "R", "O", "M">>, 1) \o FindAllTables(sql_upper, <<"J", "O", "I", "N">>, 1)

IsWhitelisted(table) ==
  Lower(table) \in {Lower(get_allowed_tables[i]) : i \in DOMAIN get_allowed_tables}

\* the first extracted table that is not whitelisted, or NoText
FirstForeignTable(sql_upper) ==
  LET tm   == table_matches(sql_upper)
      hits == {k \in DOMAIN tm : ~IsWhitelisted(tm[k])}
  IN  IF hits = {} THEN NoText
      ELSE tm[Min(hits)]

\* error messages of validate_sql and execute_query
MsgBlocked(kw) == [msg |-> "Blocked keyword detected", arg |-> kw]

MsgOnlySelect == [msg |-> "Only SELECT queries are allowed", arg |-> NoText]

MsgNotWhitelisted(table) == [msg |-> "Table is not in the whitelist", arg |-> table]

MsgMultiple == [msg |-> "Multiple statements detected", arg |-> NoText]

\* f"Query execution error: {str(e)}", e the message of the exception
MsgExecutionError(e) == [msg |-> "Query execution error", arg |-> e]

\* main.py line 841: f"Routing failed: {str(e)}"
MsgRoutingFailed(e) == [msg |-> "Routing failed", arg |-> e]

\* str(e) of the AttributeError of main.py line 771
SaveMessageError ==
  <<"'", "C", "h", "a", "t", "H", "i", "s", "t", "o", "r", "y", "S", "e", "r", "v", "i", "c", "e", "P", "o", "s", "t", "g", "r", "e", "s", "'", " ", "o", "b", "j", "e", "c", "t", " ", "h", "a", "s", " ", "n", "o", " ", "a", "t", "t", "r", "i", "b", "u", "t", "e", " ", "'", "s", "a", "v", "e", "_", "m", "e", "s", "s", "a", "g", "e", "'">>

\* the error_message None of a success
NoError == [msg |-> "None", arg |-> NoText]

BlockedKeywordRule(sql_query) == FirstBlockedKeyword(Upper(sql_query)) # NoText

ChainingRule(sql_query) == Count(sql_query, ";") > 1

\* validate_sql with the SELECT test moved ahead of the keyword loop
validate_sql_select_first(sql_query) ==
  LET sql_upper == Upper(sql_query)
  IN  IF ~StartsWithSelect(sql_upper)
        THEN [is_valid |-> FALSE, error |-> MsgOnlySelect]
      ELSE IF BlockedKeywordRule(sql_query)
        THEN [is_valid |-> FALSE, error |-> MsgBlocked(FirstBlockedKeyword(sql_upper))]
      ELSE IF FirstForeignTable(sql_upper) # NoText
        THEN [is_valid |-> FALSE, error |-> MsgNotWhitelisted(FirstForeignTable(sql_upper))]
      ELSE IF ChainingRule(sql_query)
        THEN [is_valid |-> FALSE, error |-> MsgMultiple]
      ELSE [is_valid |-> TRUE, error |-> NoError]

\* lines 103-136
validate_sql(sql_query) ==
  LET sql_upper == Upper(sql_query)
  IN  IF BlockedKeywordRule(sql_query)
        THEN [is_valid |-> FALSE, error |-> MsgBlocked(FirstBlockedKeyword(sql_upper))]
      ELSE IF ~StartsWithSelect(sql_upper)
        THEN [is_valid |-> FALSE, error |-> MsgOnlySelect]
      ELSE IF FirstForeignTable(sql_upper) # NoText
        THEN [is_valid |-> FALSE, error |-> MsgNotWhitelisted(FirstForeignTable(sql_upper))]
      ELSE IF ChainingRule(sql_query)
        THEN [is_valid |-> FALSE, error |-> MsgMultiple]
      ELSE [is_valid |-> TRUE, error |-> NoError]

(***************************************************************************)
(* SqlQueryService._inject_user_filter and the LIMIT step of execute_query  *)
(***************************************************************************)
Quoted(user_id) == <<"'">> \o user_id \o <<"'">>

\* the four placeholder substitutions, in the order of the source
ReplacePlaceholders(sql_query, user_id) ==
  LET r1 == Replace(sql_query, <<"'", "$", "u", "s", "e", "r", "_", "i", "d", "'">>, Quoted(user_id))
      r2 == Replace(r1, <<"$", "u", "s", "e", "r", "_", "i", "d">>, Quoted(user_id))
      r3 == Replace(r2, <<"'", "$", "1", "'">>, Quoted(user_id))
      r4 == Replace(r3, <<"$", "1">>, Quoted(user_id))
  IN  r4

\* index of the first match of \bWHERE\b, or 0
WhereMatch(sql_upper) ==
  LET hits == {i \in 1..Len(sql_upper) : WordAt(sql_upper, <<"W", "H", "E", "R", "E">>, i)}
  IN  IF hits = {} THEN 0 ELSE Min(hits)

\* <a>\s+BY\b matches at index i, the leading \b included
TwoWordsAt(s, a, i) ==
  LET j == i + Len(a)
      k == SkipSpace(s, j)
  IN  /\ MatchAt(s, a, i)
      /\ Boundary(s, i)
      /\ k > j
      /\ MatchAt(s, <<"B", "Y">>, k)
      /\ Boundary(s, k + 2)

\* \b(ORDER\s+BY|GROUP\s+BY|HAVING|LIMIT)\b matches at index i
EndKeywordAt(s, i) ==
  \/ TwoWordsAt(s, <<"O", "R", "D", "E", "R">>, i)
  \/ TwoWordsAt(s, <<"G", "R", "O", "U", "P">>, i)
  \/ WordAt(s, <<"H", "A", "V", "I", "N", "G">>, i)
  \/ WordAt(s, <<"L", "I", "M", "I", "T">>, i)

\* index of the first match of end_keywords, or 0
EndMatch(sql_upper) ==
  LET hits == {i \in 1..Len(sql_upper) : EndKeywordAt(sql_upper, i)}
  IN  IF hits = {} THEN 0 ELSE Min(hits)

UserIdAlreadyPresent(sql_query) == Contains(Upper(sql_query), <<"U", "S", "E", "R", "_", "I", "D">>)

inject_user_filter(sql_query, user_id) ==
  LET sql_upper == Upper(sql_query)
      w == WhereMatch(sql_upper)
      e == EndMatch(sql_upper)
  IN  IF UserIdAlreadyPresent(sql_query)
        THEN ReplacePlaceholders(sql_query, user_id)
      ELSE IF w # 0
        THEN SubSeq(sql_query, 1, w + 4)
             \o <<" ", "u", "s", "e", "r", "_", "i", "d", " ", "=", " ">> \o Quoted(user_id) \o <<" ", "A", "N", "D">>
             \o SubSeq(sql_query, w + 5, Len(sql_query))
      ELSE IF e # 0
        THEN SubSeq(sql_query, 1, e - 1)
             \o <<" ", "W", "H", "E", "R", "E", " ", "u", "s", "e", "r", "_", "i", "d", " ", "=", " ">> \o Quoted(user_id) \o <<" ">>
             \o SubSeq(sql_query, e, Len(sql_query))
      ELSE Strip(RStripSemi(sql_query)) \o <<" ", "W", "H", "E", "R", "E", " ", "u", "s", "e", "r", "_", "i", "d", " ", "=", " ">> \o Quoted(user_id)

\* the test  "LIMIT" not in modified_query.upper()
LacksLimitText(modified_query) == ~Contains(Upper(modified_query), <<"L", "I", "M", "I", "T">>)

\* lines 156-157 of execute_query
add_limit(modified_query) ==
  IF LacksLimitText(modified_query)
    THEN RStripSemi(modified_query) \o <<" ", "L", "I", "M", "I", "T", " ">> \o IntToChars(max_results)
    ELSE modified_query

\* the statement execute_query hands to conn.fetch
modified_query_of(sql_query, user_id) ==
  add_limit(inject_user_filter(sql_query, user_id))

(***************************************************************************)
(* Generated statements and user ids handed to execute_query.  A generated  *)
(* statement carries, besides its text, what the text means to the          *)
(* database: the tables it reads and the number of statements it holds.     *)
(***************************************************************************)
\* largest number of trailing ';' on a generated statement
MaxSemicolons == 1

SelectLists == { <<"S", "E", "L", "E", "C", "T", " ", "*">>, <<"s", "e", "l", "e", "c", "t", " ", "u", "s", "e", "r", "_", "i", "d">> }

FromClauses ==
  { [text |-> <<" ", "F", "R", "O", "M", " ", "o", "r", "d", "e", "r", "s">>,        reads |-> {<<"o", "r", "d", "e", "r", "s">>}],
    [text |-> <<" ", "f", "r", "o", "m", " ", "O", "r", "d", "e", "r", "s", " ", "o">>,      reads |-> {<<"o", "r", "d", "e", "r", "s">>}],
    [text |-> <<" ", "F", "R", "O", "M", " ", "u", "s", "e", "r", "s">>,         reads |-> {<<"u", "s", "e", "r", "s">>}],
    [text |-> <<" ", "F", "R", "O", "M", " ", "o", "r", "d", "e", "r", "s", ",", " ", "u", "s", "e", "r", "s">>, reads |-> {<<"o", "r", "d", "e", "r", "s">>, <<"u", "s", "e", "r", "s">>}] }

WhereClauses ==
  { <<>>,
    <<" ", "W", "H", "E", "R", "E", " ", "s", "t", "a", "t", "u", "s", " ", "=", " ", "'", "p", "e", "n", "d", "i", "n", "g", "'">>,
    <<" ", "W", "H", "E", "R", "E", " ", "u", "s", "e", "r", "_", "i", "d", " ", "=", " ", "'", "$", "u", "s", "e", "r", "_", "i", "d", "'">>,
    <<" ", "W", "H", "E", "R", "E", " ", "i", "d", " ", "=", " ", "$", "1">>,
    <<" ", "W", "H", "E", "R", "E", " ", "p", "r", "o", "d", "u", "c", "t", "_", "n", "a", "m", "e", " ", "=", " ", "'", "L", "i", "m", "i", "t", "e", "d", "'">>,
    <<" ", "W", "H", "E", "R", "E", " ", "u", "s", "e", "r", "_", "i", "d", " ", "=", " ", "'", "u", "2", "'">> }

TailClauses == { <<>>, <<" ", "O", "R", "D", "E", "R", " ", "B", "Y", " ", "i", "d">>, <<" ", "L", "I", "M", "I", "T", " ", "1", "0", "0", "0">> }

Semicolons(n) == [i \in 1..n |-> ";"]

SelectStatements ==
  { [sql_query  |-> sl \o fc.text \o wc \o tc \o Semicolons(n),
     reads      |-> fc.reads,
     statements |-> 1] :
    sl \in SelectLists, fc \in FromClauses, wc \in WhereClauses,
    tc \in TailClauses, n \in 0..MaxSemicolons }

OtherStatements ==
  { [sql_query  |-> <<"D", "E", "L", "E", "T", "E", " ", "F", "R", "O", "M", " ", "o", "r", "d", "e", "r", "s", " ", "W", "H", "E", "R", "E", " ", "i", "d", "=", "1">>,
     reads      |-> {<<"o", "r", "d", "e", "r", "s">>}, statements |-> 1],
    [sql_query  |-> <<"u", "p", "d", "a", "t", "e", " ", "o", "r", "d", "e", "r", "s", " ", "s", "e", "t", " ", "s", "t", "a", "t", "u", "s", " ", "=", " ", "'", "x", "'">>,
     reads      |-> {<<"o", "r", "d", "e", "r", "s">>}, statements |-> 1],
    [sql_query  |-> <<"S", "E", "L", "E", "C", "T", " ", "*", " ", "F", "R", "O", "M", " ", "o", "r", "d", "e", "r", "s", ";", " ", "D", "R", "O", "P", " ", "T", "A", "B", "L", "E", " ", "o", "r", "d", "e", "r", "s">>,
     reads      |-> {<<"o", "r", "d", "e", "r", "s">>}, statements |-> 2],
    [sql_query  |-> <<"S", "E", "L", "E", "C", "T", " ", "*", " ", "F", "R", "O", "M", " ", "o", "r", "d", "e", "r", "s", ";", " ", "S", "E", "L", "E", "C", "T", " ", "*", " ", "F", "R", "O", "M", " ", "o", "r", "d", "e", "r", "s">>,
     reads      |-> {<<"o", "r", "d", "e", "r", "s">>}, statements |-> 2],
    [sql_query  |-> <<"S", "E", "L", "E", "C", "T", " ", "*", " ", "F", "R", "O", "M", " ", "o", "r", "d", "e", "r", "s", ";", ";">>,
     reads      |-> {<<"o", "r", "d", "e", "r", "s">>}, statements |-> 1],
    [sql_query  |-> <<"S", "E", "L", "E", "C", "T", " ", "*", " ", "F", "R", "O", "M", " ", "o", "r", "d", "e", "r", "s", " ", "o", " ", "J", "O", "I", "N", " ", "u", "s", "e", "r", "s", " ", "u", " ", "O", "N", " ", "o", ".", "i", "d", " ", "=", " ", "u", ".", "i", "d">>,
     reads      |-> {<<"o", "r", "d", "e", "r", "s">>, <<"u", "s", "e", "r", "s">>}, statements |-> 1],
    [sql_query  |-> <<"S", "E", "L", "E", "C", "T", " ", "*", " ", "F", "R", "O", "M", " ", "\"", "u", "s", "e", "r", "s", "\"">>,
     reads      |-> {<<"u", "s", "e", "r", "s">>}, statements |-> 1],
    [sql_query  |-> <<"S", "E", "L", "E", "C", "T", " ", "*", " ", "F", "R", "O", "M", " ", "o", "r", "d", "e", "r", "s", " ", "W", "H", "E", "R", "E", " ", "s", "t", "a", "t", "u", "s", " ", "=", " ", "'", "p", "e", "n", "d", "i", "n", "g", "'", " ", "A", "N", "D", " ", "s", "t", "a", "t", "u", "s", " ", "=", " ", "'", "s", "h", "i", "p", "p", "e", "d", "'">>,
     reads      |-> {<<"o", "r", "d", "e", "r", "s">>}, statements |-> 1],
    [sql_query  |-> <<"S", "E", "L", "E", "C", "T", " ", "*", " ", "F", "R", "O", "M", " ", "o", "r", "d", "e", "r", "s", " ", "W", "H", "E", "R", "E", " ", "s", "t", "a", "t", "u", "s", " ", "=", " ", "'", "p", "e", "n", "d", "i", "n", "g", "'", " ", "O", "R", " ", "s", "t", "a", "t", "u", "s", " ", "=", " ", "'", "s", "h", "i", "p", "p", "e", "d", "'">>,
     reads      |-> {<<"o", "r", "d", "e", "r", "s">>}, statements |-> 1],
    [sql_query  |-> <<"S", "E", "L", "E", "C", "T", " ", "d", "e", "l", "e", "t", "e", "_", "f", "l", "a", "g", " ", "F", "R", "O", "M", " ", "o", "r", "d", "e", "r", "s">>,
     reads      |-> {<<"o", "r", "d", "e", "r", "s">>}, statements |-> 1],
    [sql_query  |-> <<"W", "I", "T", "H", " ", "o", " ", "A", "S", " ", "(", "S", "E", "L", "E", "C", "T", " ", "1", ")", " ", "S", "E", "L", "E", "C", "T", " ", "*", " ", "F", "R", "O", "M", " ", "o", "r", "d", "e", "r", "s">>,
     reads      |-> {<<"o", "r", "d", "e", "r", "s">>}, statements |-> 1] }

GeneratedStatements == SelectStatements \cup OtherStatements

(***************************************************************************)
(* What conn.fetch selects: the rows of orders on which the WHERE condition *)
(* of the statement holds, AND binding tighter than OR                      *)
(***************************************************************************)
Columns == { <<"u", "s", "e", "r", "_", "i", "d">>, <<"s", "t", "a", "t", "u", "s">> }

\* rows the table orders may hold, as functions from column to value
OrderRows ==
  { [c \in Columns |-> IF c = <<"u", "s", "e", "r", "_", "i", "d">> THEN u ELSE st] :
      u \in { <<"u", "1">>, <<"u", "2">> }, st \in { <<"p", "e", "n", "d", "i", "n", "g">>, <<"s", "h", "i", "p", "p", "e", "d">> } }

\* the parts of s between the occurrences of sep, sep in upper case
RECURSIVE SplitOn(_, _)
SplitOn(s, sep) ==
  LET up   == Upper(s)
      hits == {i \in 1..Len(s) : MatchAt(up, sep, i)}
  IN  IF hits = {} THEN <<s>>
      ELSE <<SubSeq(s, 1, Min(hits) - 1)>>
           \o SplitOn(SubSeq(s, Min(hits) + Len(sep), Len(s)), sep)

\* the text between WHERE and the next ORDER BY, GROUP BY, HAVING or LIMIT
ConditionText(statement) ==
  LET up == Upper(statement)
      w  == WhereMatch(up)
      e  == {i \in 1..Len(statement) : i > w /\ EndKeywordAt(up, i)}
  IN  IF w = 0 THEN NoText
      ELSE SubSeq(statement, w + 5, Min(e \cup {Len(RStripSemi(statement)) + 1}) - 1)

\* the predicate  column = 'value'  on a row; a predicate on a column the
\* rows do not have holds on no row
PredicateHolds(predicate, row) ==
  LET parts  == SplitOn(predicate, <<" ", "=", " ">>)
      column == Lower(Strip(parts[1]))
  IN  /\ Len(parts) = 2
      /\ column \in Columns
      /\ Strip(parts[2]) = Quoted(row[column])

\* the condition as a disjunction of conjunctions of predicates
ConditionHolds(condition, row) ==
  LET disjuncts == SplitOn(condition, <<" ", "O", "R", " ">>)
  IN  \E k \in DOMAIN disjuncts :
        LET conjuncts == SplitOn(disjuncts[k], <<" ", "A", "N", "D", " ">>)
        IN  \A j \in DOMAIN conjuncts : PredicateHolds(conjuncts[j], row)

\* rows of orders the statement returns
SelectedRows(statement) ==
  LET condition == ConditionText(statement)
  IN  IF condition = NoText THEN OrderRows
      ELSE {row \in OrderRows : ConditionHolds(condition, row)}

\* user_id is an unconstrained str of the request body
UserIds == { <<"u", "1">>, <<"u", "2">>, <<"'", " ", "O", "R", " ", "E", "X", "I", "S", "T", "S", " ", "(", "S", "E", "L", "E", "C", "T", " ", "1", " ", "F", "R", "O", "M", " ", "u", "s", "e", "r", "s", ")", " ", "O", "R", " ", "'", "a", "'", "=", "'">> }

Endpoints == {"/stream-chat", "/process-inquiry"}

\* rows the database may return to conn.fetch
RowSets == { <<>>, <<"row">> }

\* str(e) of an exception raised by get_pool, pool.acquire or conn.fetch
ExceptionMessages ==
  { <<"c", "o", "n", "n", "e", "c", "t", "i", "o", "n", " ", "r", "e", "f", "u", "s", "e", "d">>, <<"p", "a", "s", "s", "w", "o", "r", "d", " ", "a", "u", "t", "h", "e", "n", "t", "i", "c", "a", "t", "i", "o", "n", " ", "f", "a", "i", "l", "e", "d", " ", "f", "o", "r", " ", "u", "s", "e", "r", " ", "a", "d", "m", "i", "n">> }

\* what the database does to a call of a turn: NoText when nothing is raised
DatabaseOutcomes == {NoText} \cup ExceptionMessages

(***************************************************************************)
(* State                                                                    *)
(***************************************************************************)
VARIABLES
  pc,              \* position of the running execute_query call
  endpoint,        \* the caller: stream_sql_query_events or process_inquiry_unified
  generated,       \* the generated statement passed as sql_query
  user_id,         \* the user_id argument
  pool,            \* SqlQueryService.pool
  is_valid,        \* local is_valid of execute_query
  modified_query,  \* the statement passed to conn.fetch, NoText before
  result,          \* the tuple execute_query returned, once pc is "returned"
  raised,          \* an exception left execute_query
  pool_calls,      \* calls of get_pool in this execute_query call
  acquire_calls,   \* calls of pool.acquire in this execute_query call
  fetch_calls,     \* calls of conn.fetch in this execute_query call
  reply            \* what the caller hands to the client, once pc is "replied"

sqlvars == <<pc, endpoint, generated, user_id, pool, is_valid, modified_query,
             result, raised, pool_calls, acquire_calls, fetch_calls, reply>>

VARIABLES
  chat_messages,   \* rows of chat_messages for the session, by timestamp
  title,           \* chat_sessions.title of the session, NoText without a row
  last_routing,    \* query_type of the router's latest decision, None before
  turns,           \* number of turns processed
  turn             \* outcome of the latest turn, as the client observes it

convvars == <<chat_messages, title, last_routing, turns, turn>>

VARIABLES
  router_sessions, \* session_service: events of each (user_id, session id) of app "agents"
  uuids,           \* number of uuid4() values drawn
  requests,        \* number of requests routed
  routed           \* the latest request as its router run saw it

routervars == <<router_sessions, uuids, requests, routed>>

VARIABLES
  handlers         \* locals of the requests of the session that are in flight

concvars == <<handlers>>

vars == <<pc, endpoint, generated, user_id, pool, is_valid, modified_query,
          result, raised, pool_calls, acquire_calls, fetch_calls, reply,
          chat_messages, title, last_routing, turns, turn,
          router_sessions, uuids, requests, routed, handlers>>

NoStatement == [sql_query |-> <<>>, reads |-> {}, statements |-> 0]

NoResult == [success |-> FALSE, results |-> <<>>, error |-> NoError]

NoReply == [kind |-> None, error |-> NoError]

SqlInit ==
  /\ pc = "idle"
  /\ endpoint = None
  /\ generated = NoStatement
  /\ user_id = <<>>
  /\ pool = None
  /\ is_valid = FALSE
  /\ modified_query = NoText
  /\ result = NoResult
  /\ raised = FALSE
  /\ pool_calls = 0
  /\ acquire_calls = 0
  /\ fetch_calls = 0
  /\ reply = NoReply

(***************************************************************************)
(* SqlQueryService.execute_query, one action per await                      *)
(***************************************************************************)
\* the tuple (success, results, error_message)
Returned(success, results, error) ==
  [success |-> success, results |-> results, error |-> error]

\* execute_query without its except clause: the exception leaves the call
ExceptHandlerAbsent(e) == [result |-> NoResult, raised |-> TRUE]

\* except Exception as e: return False, [], f"Query execution error: {str(e)}"
ExceptHandler(e) == [result |-> Returned(FALSE, <<>>, MsgExecutionError(e)), raised |-> FALSE]

\* a caller (stream_sql_query_events line 213, process_inquiry_unified
\* line 1079) calls execute_query(sql_query, user_id)
CallExecuteQuery ==
  /\ pc = "idle"
  /\ \E g \in GeneratedStatements, u \in UserIds, ep \in Endpoints :
       /\ generated' = g
       /\ user_id' = u
       /\ endpoint' = ep
  /\ pc' = "validate"
  /\ is_valid' = FALSE
  /\ modified_query' = NoText
  /\ result' = NoResult
  /\ raised' = FALSE
  /\ pool_calls' = 0
  /\ acquire_calls' = 0
  /\ fetch_calls' = 0
  /\ reply' = NoReply
  /\ UNCHANGED pool
  /\ UNCHANGED <<convvars, routervars, concvars>>

\* execute_query without the early return of line 146: the verdict is
\* computed and the call goes on to the pool whatever it is
ValidateWithoutReturn ==
  /\ pc = "validate"
  /\ is_valid' = validate_sql(generated.sql_query).is_valid
  /\ pc' = "get_pool"
  /\ UNCHANGED <<endpoint, generated, user_id, pool, modified_query, result, raised,
                 pool_calls, acquire_calls, fetch_calls, reply>>
  /\ UNCHANGED <<convvars, routervars, concvars>>

\* lines 144-146: validate first, return the validator's message if invalid
Validate ==
  /\ pc = "validate"
  /\ LET v == validate_sql(generated.sql_query)
     IN  /\ is_valid' = v.is_valid
         /\ IF v.is_valid
              THEN pc' = "get_pool" /\ UNCHANGED result
              ELSE pc' = "returned" /\ result' = Returned(FALSE, <<>>, v.error)
  /\ UNCHANGED <<endpoint, generated, user_id, pool, modified_query, raised,
                 pool_calls, acquire_calls, fetch_calls, reply>>
  /\ UNCHANGED <<convvars, routervars, concvars>>

\* line 149 and get_pool: the pool is created on first use
GetPoolOk ==
  /\ pc = "get_pool"
  /\ pool' = "open"
  /\ pool_calls' = pool_calls + 1
  /\ pc' = "acquire"
  /\ UNCHANGED <<endpoint, generated, user_id, is_valid, modified_query, result,
                 raised, acquire_calls, fetch_calls, reply>>
  /\ UNCHANGED <<convvars, routervars, concvars>>

\* asyncpg.create_pool raises: caught by the except of execute_query
GetPoolFail ==
  /\ pc = "get_pool"
  /\ pool = None
  /\ pool_calls' = pool_calls + 1
  /\ \E e \in ExceptionMessages :
       /\ result' = ExceptHandler(e).result
       /\ raised' = ExceptHandler(e).raised
  /\ pc' = "returned"
  /\ UNCHANGED <<endpoint, generated, user_id, pool, is_valid, modified_query,
                 acquire_calls, fetch_calls, reply>>
  /\ UNCHANGED <<convvars, routervars, concvars>>

\* line 150: async with pool.acquire() as conn
AcquireOk ==
  /\ pc = "acquire"
  /\ acquire_calls' = acquire_calls + 1
  /\ pc' = "fetch"
  /\ UNCHANGED <<endpoint, generated, user_id, pool, is_valid, modified_query,
                 result, raised, pool_calls, fetch_calls, reply>>
  /\ UNCHANGED <<convvars, routervars, concvars>>

AcquireFail ==
  /\ pc = "acquire"
  /\ acquire_calls' = acquire_calls + 1
  /\ \E e \in ExceptionMessages :
       /\ result' = ExceptHandler(e).result
       /\ raised' = ExceptHandler(e).raised
  /\ pc' = "returned"
  /\ UNCHANGED <<endpoint, generated, user_id, pool, is_valid, modified_query,
                 pool_calls, fetch_calls, reply>>
  /\ UNCHANGED <<convvars, routervars, concvars>>

\* lines 153-165: rewrite, fetch, return the rows
FetchOk ==
  /\ pc = "fetch"
  /\ modified_query' = modified_query_of(generated.sql_query, user_id)
  /\ fetch_calls' = fetch_calls + 1
  /\ \E rows \in RowSets : result' = Returned(TRUE, rows, NoError)
  /\ pc' = "returned"
  /\ UNCHANGED <<endpoint, generated, user_id, pool, is_valid, raised,
                 pool_calls, acquire_calls, reply>>
  /\ UNCHANGED <<convvars, routervars, concvars>>

\* conn.fetch raises: caught by the except of execute_query
FetchFail ==
  /\ pc = "fetch"
  /\ modified_query' = modified_query_of(generated.sql_query, user_id)
  /\ fetch_calls' = fetch_calls + 1
  /\ \E e \in ExceptionMessages :
       /\ result' = ExceptHandler(e).result
       /\ raised' = ExceptHandler(e).raised
  /\ pc' = "returned"
  /\ UNCHANGED <<endpoint, generated, user_id, pool, is_valid,
                 pool_calls, acquire_calls, reply>>
  /\ UNCHANGED <<convvars, routervars, concvars>>

\* stream_sql_query_events lines 213-221 and process_inquiry_unified lines
\* 1079-1088: the caller turns a failure into an error reply
CallerReply(ep, res) ==
  IF res.success
    THEN [kind |-> "results", error |-> NoError]
    ELSE IF ep = "/stream-chat"
      THEN [kind |-> "ERROR", error |-> res.error]
      ELSE [kind |-> "response_data", error |-> res.error]

ReturnToCaller ==
  /\ pc = "returned"
  /\ ~raised
  /\ reply' = CallerReply(endpoint, result)
  /\ pc' = "replied"
  /\ UNCHANGED <<endpoint, generated, user_id, pool, is_valid, modified_query,
                 result, raised, pool_calls, acquire_calls, fetch_calls>>
  /\ UNCHANGED <<convvars, routervars, concvars>>

\* the request is over: the locals of the call are gone, the pool stays
RequestDone ==
  /\ pc = "replied"
  /\ pc' = "idle"
  /\ endpoint' = None
  /\ generated' = NoStatement
  /\ user_id' = <<>>
  /\ is_valid' = FALSE
  /\ modified_query' = NoText
  /\ result' = NoResult
  /\ raised' = FALSE
  /\ pool_calls' = 0
  /\ acquire_calls' = 0
  /\ fetch_calls' = 0
  /\ reply' = NoReply
  /\ UNCHANGED pool
  /\ UNCHANGED <<convvars, routervars, concvars>>

(***************************************************************************)
(* Conversation state: the chat_messages and chat_sessions rows of one      *)
(* session, and what the router and the last turn did                       *)
(***************************************************************************)
\* turns processed on the session
MaxTurns == 2

\* the decision kept in a turn record before any turn
NoDecision == [final |-> FALSE, json |-> FALSE, query_type |-> None, confidence |-> None]

NoTurn ==
  [endpoint |-> None, request |-> NoText, message |-> NoText, query_type |-> None,
   status |-> 0,
   body |-> [kind |-> None, text |-> NoText, error |-> NoError, supported_types |-> <<>>,
             rewritten_query |-> NoText],
   effective_query |-> NoText, invoked |-> {}, events |-> <<>>,
   needs_confirmation |-> FALSE, decision |-> NoDecision,
   generation |-> <<>>, statement |-> NoText]

(***************************************************************************)
(* Inputs of a turn: the user's message and what the LLM agents answer      *)
(***************************************************************************)
UserMessages == { <<"a", "f", "i", "c", "a", "n", " ", "a", "r", "t">>, <<"Y", "e", "s">>, <<"N", "o">>, <<"t", "h", "e", " ", "o", "r", "i", "g", "i", "n", "a", "l">> }

\* confidence of a routing decision: missing, or stated
Confidences == {None, "high"}

\* final output of the router agent
RouterOutputs ==
  { [final |-> FALSE, json |-> FALSE, query_type |-> None, confidence |-> None],
    [final |-> TRUE,  json |-> FALSE, query_type |-> None, confidence |-> None] }
  \cup
  { [final |-> TRUE, json |-> TRUE, query_type |-> q, confidence |-> c] :
      q \in {None, "sql_query", "document_search", "customer_service",
             "clarification_needed", "unsupported"},
      c \in Confidences }

\* rewritten_query values the query analyzer offers
Rewrites == { <<"A", "f", "r", "i", "c", "a", "n", " ", "a", "r", "t">>, <<"a", "r", "t", "'", "s">> }

\* output of the query analysis: nothing, unparseable, or a parsed analysis
AnalysisOutputs ==
  { [final |-> FALSE, json |-> FALSE, needs_confirmation |-> FALSE, rewritten_query |-> <<>>],
    [final |-> TRUE,  json |-> FALSE, needs_confirmation |-> FALSE, rewritten_query |-> <<>>],
    [final |-> TRUE,  json |-> TRUE,  needs_confirmation |-> FALSE, rewritten_query |-> <<>>] }
  \cup
  { [final |-> TRUE, json |-> TRUE, needs_confirmation |-> TRUE, rewritten_query |-> r] :
      r \in Rewrites }

\* statements the generation pipeline hands to the data-query branch;
\* NoText stands for a missing or empty sql_query
TurnStatements ==
  { NoText, <<"S", "E", "L", "E", "C", "T", " ", "*", " ", "F", "R", "O", "M", " ", "o", "r", "d", "e", "r", "s", " ", "W", "H", "E", "R", "E", " ", "u", "s", "e", "r", "_", "i", "d", " ", "=", " ", "'", "$", "u", "s", "e", "r", "_", "i", "d", "'">>,
    <<"D", "E", "L", "E", "T", "E", " ", "F", "R", "O", "M", " ", "o", "r", "d", "e", "r", "s", " ", "W", "H", "E", "R", "E", " ", "i", "d", "=", "1">> }

\* final outputs of the customer-service pipeline within one run
ServiceOutputs == { <<>>, <<"json">>, <<"text">>, <<"json", "json">> }

AnswerText == <<"H", "e", "r", "e", " ", "i", "s", " ", "y", "o", "u", "r", " ", "a", "n", "s", "w", "e", "r">>

\* the templated answer when no document is retrieved
ApologyText(clean_topic) ==
  <<"I", " ", "c", "o", "u", "l", "d", "n", "'", "t", " ", "f", "i", "n", "d", " ", "a", "n", "y", " ", "d", "o", "c", "u", "m", "e", "n", "t", "s", " ", "a", "b", "o", "u", "t", " ">> \o clean_topic
  \o <<".", " ", "T", "h", "e", " ", "k", "n", "o", "w", "l", "e", "d", "g", "e", " ", "b", "a", "s", "e", " ", "m", "a", "y", " ", "n", "o", "t", " ", "c", "o", "n", "t", "a", "i", "n", " ", "i", "n", "f", "o", "r", "m", "a", "t", "i", "o", "n", " ", "a", "b", "o", "u", "t", " ">> \o clean_topic \o <<".">>

RefusalText ==
  <<"I", "'", "m", " ", "s", "o", "r", "r", "y", ",", " ", "b", "u", "t", " ", "I", " ", "c", "a", "n", " ", "o", "n", "l", "y", " ", "h", "a", "n", "d", "l", "e", " ", "S", "Q", "L", " ", "q", "u", "e", "r", "i", "e", "s", ",", " ", "d", "o", "c", "u", "m", "e", "n", "t", " ", "s", "e", "a", "r", "c", "h", " ", "q", "u", "e", "r", "i", "e", "s", ",", " ", "a", "n", "d", " ", "c", "u", "s", "t", "o", "m", "e", "r", " ", "s", "e", "r", "v", "i", "c", "e", " ", "i", "n", "q", "u", "i", "r", "i", "e", "s", ".", " ", "Y", "o", "u", "r", " ", "q", "u", "e", "r", "y", " ", "d", "o", "e", "s", "n", "'", "t", " ", "f", "i", "t", " ", "i", "n", "t", "o", " ", "a", "n", "y", " ", "o", "f", " ", "t", "h", "e", "s", "e", " ", "c", "a", "t", "e", "g", "o", "r", "i", "e", "s", ".">>

SupportedTypesWithoutService == <<"sql_query", "document_search">>

SupportedTypes == <<"sql_query", "document_search", "customer_service">>

UserMsg(content) == [role |-> "user", content |-> content]

AssistantMsg(content) == [role |-> "assistant", content |-> content]

(***************************************************************************)
(* ChatHistoryServicePostgres                                               *)
(***************************************************************************)
\* SELECT ... ORDER BY timestamp ASC LIMIT limit
get_session_history(messages, limit) ==
  SubSeq(messages, 1, IF Len(messages) < limit THEN Len(messages) ELSE limit)

\* SELECT COUNT(*)
get_session_count(messages) == Len(messages)

\* .replace('\n', ' ')
ReplaceNewlines(s) == [i \in DOMAIN s |-> IF s[i] = "\n" THEN " " ELSE s[i]]

\* title from the first user message: content[:50], '...' when longer
auto_generate_title(messages, old_title) ==
  LET users == {i \in DOMAIN messages : messages[i].role = "user"}
      content == messages[Min(users)].content
  IN  IF users = {} THEN old_title
      ELSE IF Len(content) > 50
        THEN Strip(ReplaceNewlines(SubSeq(content, 1, 50))) \o <<".", ".", ".">>
        ELSE Strip(ReplaceNewlines(content))

(***************************************************************************)
(* process_inquiry_unified: detection of a pending rewrite                  *)
(***************************************************************************)
\* confirmation_msg of line 1224
ConfirmationMsg(rewritten_query) ==
  <<"I", " ", "n", "o", "t", "i", "c", "e", "d", " ", "y", "o", "u", "r", " ", "q", "u", "e", "r", "y", " ", "m", "i", "g", "h", "t", " ", "h", "a", "v", "e", " ", "a", " ", "g", "r", "a", "m", "m", "a", "t", "i", "c", "a", "l", " ", "i", "s", "s", "u", "e", ".", " ", "D", "i", "d", " ", "y", "o", "u", " ", "m", "e", "a", "n", ":", " ", "'">>
  \o rewritten_query \o <<"'", "?">>

\* index of the first "'" at or after i, Len + 1 if none
NextQuote(s, i) ==
  Min({k \in i..(Len(s) + 1) : k > Len(s) \/ s[k] = "'"} \cup {Len(s) + 1})

\* re.search(r"Did you mean: '([^']+)'\?", content) matches at index i
RewriteMatchAt(content, i) ==
  LET k == i + 15
      e == NextQuote(content, k)
  IN  /\ MatchAt(content, <<"D", "i", "d", " ", "y", "o", "u", " ", "m", "e", "a", "n", ":", " ", "'">>, i)
      /\ e > k
      /\ MatchAt(content, <<"'", "?">>, e)

\* match.group(1) of the first match, or NoText
RewriteMatch(content) ==
  LET hits == {i \in 1..Len(content) : RewriteMatchAt(content, i)}
  IN  IF hits = {} THEN NoText
      ELSE SubSeq(content, Min(hits) + 15, NextQuote(content, Min(hits) + 15) - 1)

\* lines 1157-1164: the latest assistant message of recent_history that
\* holds a confirmation prompt the regex can read
pending_rewrite_of(recent_history) ==
  LET hits == {i \in DOMAIN recent_history :
                 /\ recent_history[i].role = "assistant"
                 /\ Contains(recent_history[i].content, <<"D", "i", "d", " ", "y", "o", "u", " ", "m", "e", "a", "n", ":">>)
                 /\ RewriteMatch(recent_history[i].content) # NoText}
  IN  IF hits = {} THEN NoText
      ELSE RewriteMatch(recent_history[Max(hits)].content)

\* lines 1153-1164 on the stored messages of the session
PendingRewrite(messages) == pending_rewrite_of(get_session_history(messages, 5))

\* the rows of a session when the service starts to process its turns: a
\* new session without rows, a session whose last turn was answered with a
\* confirmation prompt, or a session that holds the exchanges of three
\* earlier /stream-chat turns and the title generated after the first
EarlierExchanges ==
  <<UserMsg(<<"a", "f", "i", "c", "a", "n", " ", "a", "r", "t">>), AssistantMsg(AnswerText),
    UserMsg(<<"a", "f", "i", "c", "a", "n", " ", "a", "r", "t">>), AssistantMsg(AnswerText),
    UserMsg(<<"a", "f", "i", "c", "a", "n", " ", "a", "r", "t">>), AssistantMsg(AnswerText)>>

\* main.py lines 1224-1252: what a confirmation prompt leaves in a new session
PromptedExchange ==
  <<UserMsg(<<"a", "f", "i", "c", "a", "n", " ", "a", "r", "t">>), AssistantMsg(ConfirmationMsg(<<"A", "f", "r", "i", "c", "a", "n", " ", "a", "r", "t">>))>>

StoredSessions ==
  { [messages |-> <<>>, title |-> NoText],
    [messages |-> PromptedExchange, title |-> <<"N", "e", "w", " ", "S", "e", "a", "r", "c", "h">>],
    [messages |-> EarlierExchanges,
     title    |-> auto_generate_title(EarlierExchanges, <<"N", "e", "w", " ", "C", "h", "a", "t">>)] }

AffirmativeSet == { <<"y", "e", "s">>, <<"c", "o", "n", "f", "i", "r", "m">>, <<"y", "e", "s", ",", " ", "s", "e", "a", "r", "c", "h", " ", "f", "o", "r", " ", "t", "h", "a", "t">>, <<"y">> }

NegativeSet == { <<"n", "o">>, <<"e", "d", "i", "t">>, <<"n", "o", ",", " ", "l", "e", "t", " ", "m", "e", " ", "r", "e", "p", "h", "r", "a", "s", "e">> }

\* the list of line 1188
OriginalScanSkips == { <<"y", "e", "s">>, <<"n", "o">>, <<"c", "o", "n", "f", "i", "r", "m">>, <<"e", "d", "i", "t">>, <<"o", "r", "i", "g", "i", "n", "a", "l">> }

\* lines 1187-1191: the latest user message that is not in the skip list
OriginalQuery(recent_history, user_message) ==
  LET hits == {i \in DOMAIN recent_history :
                 /\ recent_history[i].role = "user"
                 /\ recent_history[i].content \notin OriginalScanSkips}
  IN  IF hits = {} THEN user_message ELSE recent_history[Max(hits)].content

\* lines 1166-1191: "accept", "reject", "original" or "none"
ConfirmationResponse(pending_rewrite, user_message) ==
  LET user_response_lower == Strip(Lower(user_message))
  IN  IF pending_rewrite # NoText /\ user_response_lower \in AffirmativeSet THEN "accept"
      ELSE IF pending_rewrite # NoText /\ user_response_lower \in NegativeSet THEN "reject"
      ELSE IF pending_rewrite # NoText /\ Contains(user_response_lower, <<"o", "r", "i", "g", "i", "n", "a", "l">>) THEN "original"
      ELSE "none"

\* user_message after lines 1166-1191
EffectiveQuery(recent_history, user_message) ==
  LET pending_rewrite == pending_rewrite_of(recent_history)
      kind == ConfirmationResponse(pending_rewrite, user_message)
  IN  IF kind = "accept" THEN pending_rewrite
      ELSE IF kind = "original" THEN OriginalQuery(recent_history, user_message)
      ELSE user_message

(***************************************************************************)
(* Turns.  A turn is one request on /process-inquiry or /stream-chat; the   *)
(* outputs of the LLM agents and of the stores are chosen freely.           *)
(***************************************************************************)
\* the payload of a response or of the last event: a text, or an error
Body(kind, text) ==
  [kind |-> kind, text |-> text, error |-> NoError, supported_types |-> <<>>,
   rewritten_query |-> NoText, confidence |-> None]

ErrorBody(kind, error) ==
  [kind |-> kind, text |-> NoText, error |-> error, supported_types |-> <<>>,
   rewritten_query |-> NoText, confidence |-> None]

\* lines 1254-1269: the query_confirmation response
ConfirmationBody(rewritten_query) ==
  [kind |-> "confirmation", text |-> ConfirmationMsg(rewritten_query), error |-> NoError,
   supported_types |-> <<>>, rewritten_query |-> rewritten_query, confidence |-> None]

\* lines 815-835 and 1415-1420: the refusal and the supported types
RefusalBody(kind) ==
  [kind |-> kind, text |-> RefusalText, error |-> NoError,
   supported_types |-> SupportedTypes, rewritten_query |-> NoText, confidence |-> None]

\* lines 1173-1183: the request to rephrase; its confidence is a literal
RephraseBody ==
  [kind |-> "clarification", text |-> <<"P", "l", "e", "a", "s", "e", " ", "r", "e", "p", "h", "r", "a", "s", "e", " ", "y", "o", "u", "r", " ", "s", "e", "a", "r", "c", "h", " ", "q", "u", "e", "r", "y", ":">>,
   error |-> NoError, supported_types |-> <<>>, rewritten_query |-> NoText,
   confidence |-> "high"]

\* lines 1402-1411: the clarification response; .get("confidence", "low")
ClarificationBody(r) ==
  [kind |-> "clarification",
   text |-> <<"C", "o", "u", "l", "d", " ", "y", "o", "u", " ", "p", "l", "e", "a", "s", "e", " ", "p", "r", "o", "v", "i", "d", "e", " ", "m", "o", "r", "e", " ", "d", "e", "t", "a", "i", "l", "s", " ", "a", "b", "o", "u", "t", " ", "y", "o", "u", "r", " ", "r", "e", "q", "u", "e", "s", "t", "?">>,
   error |-> NoError, supported_types |-> <<>>, rewritten_query |-> NoText,
   confidence |-> IF r.confidence = None THEN "low" ELSE r.confidence]

\* final output of the SQL generation pipeline: not JSON, or JSON whose
\* sql_query may be missing
GenerationOutputs ==
  { [json |-> FALSE, sql_query |-> NoText] }
  \cup { [json |-> TRUE, sql_query |-> st] : st \in TurnStatements }

\* the final responses of one run of the generation pipeline, in order
GenerationRuns ==
  LET stated == {g \in GenerationOutputs : g.json /\ g.sql_query # NoText}
  IN  { <<>> } \cup { <<g>> : g \in GenerationOutputs }
               \cup { <<g1, g2>> : g1 \in stated, g2 \in stated }

\* validation_result None: no statement
NoOutput == [json |-> TRUE, sql_query |-> NoText]

\* process_inquiry_unified lines 1053-1064: the loop breaks at the first
\* final response; one that is not JSON leaves validation_result None
InquiryGenerated(run) ==
  IF run = <<>> THEN NoOutput
  ELSE IF ~run[1].json THEN NoOutput
  ELSE run[1]

\* stream_sql_query_events lines 180-195: the loop runs to the end of the
\* events, each final response replacing validation_result; one that is
\* not JSON ends the stream
StreamGenerated(run) ==
  IF \E i \in DOMAIN run : ~run[i].json THEN [json |-> FALSE, sql_query |-> NoText]
  ELSE IF run = <<>> THEN NoOutput
  ELSE run[Len(run)]

\* request: the message of the request body; message, query_type, status
\* and body: what the client receives; the others: what ran
TurnRecord(ep, request, message, query_type, status, body, effective_query, invoked, events) ==
  [endpoint |-> ep, request |-> request, message |-> message, query_type |-> query_type,
   status |-> status, body |-> body, effective_query |-> effective_query,
   invoked |-> invoked, events |-> events, needs_confirmation |-> FALSE,
   decision |-> NoDecision, generation |-> <<>>, statement |-> NoText]

\* the turn t of a document search whose query analysis returned a:
\* needs_confirmation of the parsed analysis is kept with the turn
Analysed(t, a) ==
  [t EXCEPT !.needs_confirmation = a.final /\ a.json /\ a.needs_confirmation]

\* the turn t of a data query: the final responses of the generation run
\* and the statement the handler took from them
Generated(t, run, g) == [t EXCEPT !.generation = run, !.statement = g.sql_query]

\* validate_sql on the statements a turn can hand to execute_query
TurnValidation == [st \in TurnStatements |-> validate_sql(st)]

\* execute_query as the turn observes it, v being the verdict of
\* validate_sql: the verdict first, then the outcome of the database
ExecuteQueryResult(v, db) ==
  IF ~v.is_valid THEN Returned(FALSE, <<>>, v.error)
  ELSE IF db # NoText THEN ExceptHandler(db).result
  ELSE Returned(TRUE, <<"row">>, NoError)

\* what execute_query touches, v being the verdict of validate_sql
ExecuteQueryInvokes(v) ==
  IF v.is_valid THEN {"execute_query", "database"}
  ELSE {"execute_query"}

\* lines 1005-1011: the routing output must be present and parse as JSON
InquiryRouted(r) == r.final /\ r.json

\* a dispatch that asks for clarification unless the router is confident
QueryTypeByConfidence(r) ==
  IF r.confidence # "high" THEN "clarification_needed"
  ELSE IF r.query_type = None THEN "customer_service" ELSE r.query_type

\* .get("query_type", "customer_service")
QueryTypeOf(r) == IF r.query_type = None THEN "customer_service" ELSE r.query_type

\* lines 707-720: any failure of the routing output falls back
StreamQueryType(r) ==
  IF r.final /\ r.json THEN QueryTypeOf(r) ELSE "customer_service"

\* the turn t ends: r is the output of the router it started with
EndTurn(r, t, new_messages, new_title, routing) ==
  /\ turn' = [t EXCEPT !.decision = r]
  /\ chat_messages' = chat_messages \o new_messages
  /\ title' = new_title
  /\ last_routing' = routing
  /\ turns' = turns + 1
  /\ UNCHANGED <<sqlvars, routervars, concvars>>

----------------------------------------------------------------------------
\* /process-inquiry, lines 999-1011 and 1430-1433: no routing output, or
\* one that is not JSON, ends the request with HTTP 500
InquiryRoutingFailed ==
  /\ turns < MaxTurns
  /\ \E m \in UserMessages, r \in RouterOutputs :
       /\ ~InquiryRouted(r)
       /\ EndTurn(r, TurnRecord("/process-inquiry", m, m, None, 500,
                             Body("http_error", IF r.final THEN <<"F", "a", "i", "l", "e", "d", " ", "t", "o", " ", "p", "a", "r", "s", "e", " ", "a", "g", "e", "n", "t", " ", "r", "e", "s", "p", "o", "n", "s", "e">>
                                                ELSE <<"F", "a", "i", "l", "e", "d", " ", "t", "o", " ", "p", "r", "o", "c", "e", "s", "s", " ", "i", "n", "q", "u", "i", "r", "y">>),
                             NoText, {"router"}, <<>>),
                  <<>>, title, None)

\* process_inquiry_unified lines 1066-1130: the outcome of the data-query
\* branch for the statement st, v being the verdict of validate_sql on it
InquirySqlTurn(m, st, v, db) ==
  TurnRecord("/process-inquiry", m, m, "sql_query", 200,
             IF st = NoText THEN Body("sql_error", <<"F", "a", "i", "l", "e", "d", " ", "t", "o", " ", "g", "e", "n", "e", "r", "a", "t", "e", " ", "S", "Q", "L", " ", "q", "u", "e", "r", "y">>)
             ELSE IF ~ExecuteQueryResult(v, db).success
               THEN ErrorBody("sql_error", ExecuteQueryResult(v, db).error)
             ELSE Body("sql_answer", AnswerText),
             NoText,
             {"router", "sql_generation"}
               \cup (IF st = NoText THEN {} ELSE ExecuteQueryInvokes(v))
               \cup (IF st # NoText /\ ExecuteQueryResult(v, db).success
                       THEN {"result_formatter"} ELSE {}),
             <<>>)

\* the data-query turn for the output g taken from the run
InquirySqlEnd(m, r, run, g, db) ==
  EndTurn(r, Generated(InquirySqlTurn(m, g.sql_query, TurnValidation[g.sql_query], db), run, g),
          <<>>, title, "sql_query")

\* /process-inquiry, lines 1016-1130: the data-query branch
InquirySqlQuery ==
  /\ turns < MaxTurns
  /\ \E m \in UserMessages, r \in RouterOutputs, run \in GenerationRuns, db \in DatabaseOutcomes :
       /\ InquiryRouted(r) /\ QueryTypeOf(r) = "sql_query"
       /\ InquirySqlEnd(m, r, run, InquiryGenerated(run), db)

\* /process-inquiry, lines 1172-1184: a pending rewrite is rejected
InquiryRejectRewrite ==
  /\ turns < MaxTurns
  /\ LET pending_rewrite == PendingRewrite(chat_messages)
     IN
     \E m \in UserMessages, r \in RouterOutputs :
       /\ InquiryRouted(r) /\ QueryTypeOf(r) = "document_search"
       /\ ConfirmationResponse(pending_rewrite, m) = "reject"
       /\ EndTurn(r, TurnRecord("/process-inquiry", m, m, "clarification_needed", 200,
                             RephraseBody,
                             NoText, {"router"}, <<>>),
                  <<>>, title, "document_search")

\* /process-inquiry, lines 1222-1269: the analysis asks for confirmation
InquiryConfirmationPrompt ==
  /\ turns < MaxTurns
  /\ LET pending_rewrite == PendingRewrite(chat_messages)
     IN
     \E m \in UserMessages, r \in RouterOutputs, a \in AnalysisOutputs :
       /\ InquiryRouted(r) /\ QueryTypeOf(r) = "document_search"
       /\ ConfirmationResponse(pending_rewrite, m) # "reject"
       /\ a.final /\ a.json /\ a.needs_confirmation
       /\ LET q == EffectiveQuery(get_session_history(chat_messages, 5), m)
          IN  EndTurn(r, Analysed(TurnRecord("/process-inquiry", m, q, "query_confirmation", 200,
                                          ConfirmationBody(a.rewritten_query),
                                          q, {"router", "query_analysis"}, <<>>), a),
                      <<UserMsg(q), AssistantMsg(ConfirmationMsg(a.rewritten_query))>>,
                      IF title = NoText THEN <<"N", "e", "w", " ", "S", "e", "a", "r", "c", "h">> ELSE title,
                      "document_search")

\* /process-inquiry, lines 1193-1220 and 1271-1352: the search itself
InquiryDocumentSearch ==
  /\ turns < MaxTurns
  /\ LET pending_rewrite == PendingRewrite(chat_messages)
     IN
     \E m \in UserMessages, r \in RouterOutputs, a \in AnalysisOutputs, docs \in BOOLEAN :
       /\ InquiryRouted(r) /\ QueryTypeOf(r) = "document_search"
       /\ ConfirmationResponse(pending_rewrite, m) # "reject"
       /\ ~(a.final /\ a.json /\ a.needs_confirmation)
       /\ LET q == EffectiveQuery(get_session_history(chat_messages, 5), m)
              t == IF ~a.final
                     THEN TurnRecord("/process-inquiry", m, q, "document_search", 200,
                                     Body("doc_error", <<"D", "o", "c", "u", "m", "e", "n", "t", " ", "q", "u", "e", "r", "y", " ", "a", "n", "a", "l", "y", "s", "i", "s", " ", "f", "a", "i", "l", "e", "d">>),
                                     q, {"router", "query_analysis"}, <<>>)
                   ELSE IF ~a.json
                     THEN TurnRecord("/process-inquiry", m, q, None, 500,
                                     Body("http_error", <<"F", "a", "i", "l", "e", "d", " ", "t", "o", " ", "p", "a", "r", "s", "e", " ", "a", "g", "e", "n", "t", " ", "r", "e", "s", "p", "o", "n", "s", "e">>),
                                     q, {"router", "query_analysis"}, <<>>)
                   ELSE IF ~docs
                     THEN TurnRecord("/process-inquiry", m, q, "document_search", 200,
                                     Body("doc_answer", ApologyText(q)),
                                     q, {"router", "query_analysis", "retrieval"}, <<>>)
                   ELSE TurnRecord("/process-inquiry", m, q, "document_search", 200,
                                   Body("doc_answer", AnswerText),
                                   q, {"router", "query_analysis", "retrieval",
                                       "result_processing"}, <<>>)
          IN  EndTurn(r, Analysed(t, a), <<>>, title, "document_search")

\* /process-inquiry, lines 1354-1400: the customer-service branch
InquiryCustomerService ==
  /\ turns < MaxTurns
  /\ \E m \in UserMessages, r \in RouterOutputs, out \in ServiceOutputs :
       /\ InquiryRouted(r) /\ QueryTypeOf(r) = "customer_service"
       /\ LET t == IF out = <<>>
                     THEN TurnRecord("/process-inquiry", m, m, "customer_service", 200,
                                     Body("cs_error", <<"C", "u", "s", "t", "o", "m", "e", "r", " ", "s", "e", "r", "v", "i", "c", "e", " ", "p", "r", "o", "c", "e", "s", "s", "i", "n", "g", " ", "f", "a", "i", "l", "e", "d">>),
                                     NoText, {"router", "customer_service"}, <<>>)
                   ELSE IF out[1] = "json"
                     THEN TurnRecord("/process-inquiry", m, m, "customer_service", 200,
                                     Body("cs_answer", AnswerText),
                                     NoText, {"router", "customer_service"}, <<>>)
                   ELSE TurnRecord("/process-inquiry", m, m, None, 500,
                                   Body("http_error", <<"F", "a", "i", "l", "e", "d", " ", "t", "o", " ", "p", "a", "r", "s", "e", " ", "a", "g", "e", "n", "t", " ", "r", "e", "s", "p", "o", "n", "s", "e">>),
                                   NoText, {"router", "customer_service"}, <<>>)
          IN  EndTurn(r, t, <<>>, title, "customer_service")

\* /process-inquiry, lines 1402-1411: the router asks for clarification
InquiryClarification ==
  /\ turns < MaxTurns
  /\ \E m \in UserMessages, r \in RouterOutputs :
       /\ InquiryRouted(r) /\ QueryTypeOf(r) = "clarification_needed"
       /\ EndTurn(r, TurnRecord("/process-inquiry", m, m, "clarification_needed", 200,
                             ClarificationBody(r),
                             NoText, {"router"}, <<>>),
                  <<>>, title, "clarification_needed")

\* /process-inquiry, lines 1413-1420: any other query type
InquiryUnsupported ==
  /\ turns < MaxTurns
  /\ \E m \in UserMessages, r \in RouterOutputs :
       /\ InquiryRouted(r)
       /\ QueryTypeOf(r) \notin {"sql_query", "document_search", "customer_service",
                                 "clarification_needed"}
       /\ EndTurn(r, TurnRecord("/process-inquiry", m, m, QueryTypeOf(r), 200,
                             RefusalBody("unsupported"),
                             NoText, {"router"}, <<>>),
                  <<>>, title, QueryTypeOf(r))

----------------------------------------------------------------------------
\* stream_chat lines 897-904: the session row is created when missing
TitleAtStart == IF title = NoText THEN <<"N", "e", "w", " ", "C", "h", "a", "t">> ELSE title

\* stream_with_title_generation lines 908-916: the title is generated
\* after the stream when the session held no message before it
TitleAfterStream(new_messages) ==
  IF get_session_count(chat_messages) = 0
    THEN auto_generate_title(chat_messages \o new_messages, TitleAtStart)
    ELSE TitleAtStart

\* events every routed stream starts with (lines 661-665 and the STATUS of
\* the chosen branch)
RoutingEvents == <<"SQL_ROUTING", "STATUS">>

\* stream_sql_query_events lines 180-286: the outcome for the final output
\* g of the generation pipeline, v being the verdict of validate_sql
StreamSqlTurn(m, g, v, db) ==
  IF ~g.json
    THEN TurnRecord("/stream-chat", m, m, None, 200,
                    Body("ERROR", <<"F", "a", "i", "l", "e", "d", " ", "t", "o", " ", "p", "a", "r", "s", "e", " ", "S", "Q", "L", " ", "v", "a", "l", "i", "d", "a", "t", "i", "o", "n", " ", "r", "e", "s", "u", "l", "t">>),
                    NoText, {"router", "sql_generation"},
                    RoutingEvents \o <<"STATUS", "SQL_GENERATING", "ERROR">>)
  ELSE IF g.sql_query = NoText
    THEN TurnRecord("/stream-chat", m, m, None, 200,
                    Body("ERROR", <<"S", "Q", "L", " ", "g", "e", "n", "e", "r", "a", "t", "i", "o", "n", " ", "f", "a", "i", "l", "e", "d">>),
                    NoText, {"router", "sql_generation"},
                    RoutingEvents \o <<"STATUS", "SQL_GENERATING", "ERROR">>)
  ELSE IF ~ExecuteQueryResult(v, db).success
    THEN TurnRecord("/stream-chat", m, m, None, 200,
                    ErrorBody("ERROR", ExecuteQueryResult(v, db).error),
                    NoText, {"router", "sql_generation"} \cup ExecuteQueryInvokes(v),
                    RoutingEvents \o <<"STATUS", "SQL_GENERATING", "SQL_EXECUTING", "ERROR">>)
  ELSE TurnRecord("/stream-chat", m, m, "sql_query", 200,
                  Body("FINAL_RESPONSE", AnswerText),
                  NoText, {"router", "sql_generation", "result_formatter"}
                        \cup ExecuteQueryInvokes(v),
                  RoutingEvents \o <<"STATUS", "SQL_GENERATING", "SQL_EXECUTING",
                                     "PROCESSING", "FINAL_RESPONSE">>)

\* stream_sql_query_events lines 123-131 and 260-268: the user message is
\* stored first, the answer only after a successful execution
StreamSqlMessages(m, g, v, db) ==
  IF g.json /\ g.sql_query # NoText /\ ExecuteQueryResult(v, db).success
    THEN <<UserMsg(m), AssistantMsg(AnswerText)>>
    ELSE <<UserMsg(m)>>

\* the data-query stream for the output g taken from the run
StreamSqlEnd(m, r, run, g, db) ==
  EndTurn(r, Generated(StreamSqlTurn(m, g, TurnValidation[g.sql_query], db), run, g),
          StreamSqlMessages(m, g, TurnValidation[g.sql_query], db),
          TitleAfterStream(StreamSqlMessages(m, g, TurnValidation[g.sql_query], db)),
          "sql_query")

\* /stream-chat, stream_sql_query_events
StreamSqlQuery ==
  /\ turns < MaxTurns
  /\ \E m \in UserMessages, r \in RouterOutputs,
        run \in GenerationRuns, db \in DatabaseOutcomes :
       /\ StreamQueryType(r) = "sql_query"
       /\ StreamSqlEnd(m, r, run, StreamGenerated(run), db)

\* /stream-chat, stream_document_search_events
StreamDocumentSearch ==
  /\ turns < MaxTurns
  /\ \E m \in UserMessages, r \in RouterOutputs, a \in AnalysisOutputs, docs \in BOOLEAN :
       /\ StreamQueryType(r) = "document_search"
       /\ LET pre == RoutingEvents \o <<"STATUS", "DOC_ANALYZING">>
              t == IF ~a.final
                     THEN TurnRecord("/stream-chat", m, m, None, 200,
                                     Body("ERROR", <<"Q", "u", "e", "r", "y", " ", "a", "n", "a", "l", "y", "s", "i", "s", " ", "f", "a", "i", "l", "e", "d">>),
                                     m, {"router", "query_analysis"}, pre \o <<"ERROR">>)
                   ELSE IF ~a.json
                     THEN TurnRecord("/stream-chat", m, m, None, 200,
                                     Body("ERROR", <<"F", "a", "i", "l", "e", "d", " ", "t", "o", " ", "p", "a", "r", "s", "e", " ", "q", "u", "e", "r", "y", " ", "a", "n", "a", "l", "y", "s", "i", "s", " ", "r", "e", "s", "u", "l", "t">>),
                                     m, {"router", "query_analysis"}, pre \o <<"ERROR">>)
                   ELSE IF ~docs
                     THEN TurnRecord("/stream-chat", m, m, "document_search", 200,
                                     Body("FINAL_RESPONSE", ApologyText(m)),
                                     m, {"router", "query_analysis", "retrieval"},
                                     pre \o <<"DOC_RETRIEVING", "FINAL_RESPONSE">>)
                   ELSE TurnRecord("/stream-chat", m, m, "document_search", 200,
                                   Body("FINAL_RESPONSE", AnswerText),
                                   m, {"router", "query_analysis", "retrieval", "result_processing"},
                                   pre \o <<"DOC_RETRIEVING", "DOC_RANKING", "DOC_SYNTHESIZING",
                                            "FINAL_RESPONSE">>)
              new == IF ~(a.final /\ a.json) THEN <<UserMsg(m)>>
                     ELSE IF ~docs THEN <<UserMsg(m), AssistantMsg(ApologyText(m))>>
                     ELSE <<UserMsg(m), AssistantMsg(AnswerText)>>
          IN  EndTurn(r, Analysed(t, a), new, TitleAfterStream(new), "document_search")

\* events and stored messages of the loop of lines 596-648 over the final
\* outputs of the customer-service pipeline
ServiceEvents(out) ==
  [i \in DOMAIN out |-> IF out[i] = "json" THEN "FINAL_RESPONSE" ELSE "ERROR"]

ServiceMessages(out) ==
  LET RECURSIVE Msgs(_)
      Msgs(i) == IF i > Len(out) THEN <<>>
                 ELSE (IF out[i] = "json" THEN <<AssistantMsg(AnswerText)>> ELSE <<>>)
                      \o Msgs(i + 1)
  IN  Msgs(1)

\* /stream-chat, stream_agent_events; also the route taken when the
\* router's output is missing or is not JSON (lines 716-720)
StreamCustomerService ==
  /\ turns < MaxTurns
  /\ \E m \in UserMessages, r \in RouterOutputs, out \in ServiceOutputs :
       /\ StreamQueryType(r) = "customer_service"
       /\ LET ev  == RoutingEvents \o <<"STATUS", "STATUS", "PROCESSING">> \o ServiceEvents(out)
              new == <<UserMsg(m)>> \o ServiceMessages(out)
              t   == TurnRecord("/stream-chat", m, m, None, 200,
                                IF out = <<>> THEN Body("none", NoText)
                                ELSE IF out[Len(out)] = "json" THEN Body("FINAL_RESPONSE", AnswerText)
                                ELSE Body("ERROR", <<"F", "a", "i", "l", "e", "d", " ", "t", "o", " ", "p", "a", "r", "s", "e", " ", "a", "g", "e", "n", "t", " ", "r", "e", "s", "p", "o", "n", "s", "e">>),
                                NoText, {"router", "customer_service"}, ev)
          IN  EndTurn(r, t, new, TitleAfterStream(new), "customer_service")

\* /stream-chat, lines 752-794: chat_history.save_message does not exist on
\* ChatHistoryServicePostgres, so line 771 raises AttributeError, which the
\* except of line 840 turns into an ERROR event; nothing is stored
StreamClarification ==
  /\ turns < MaxTurns
  /\ \E m \in UserMessages, r \in RouterOutputs :
       /\ StreamQueryType(r) = "clarification_needed"
       /\ EndTurn(r, TurnRecord("/stream-chat", m, m, None, 200,
                             ErrorBody("ERROR", MsgRoutingFailed(SaveMessageError)),
                             NoText, {"router"}, RoutingEvents \o <<"ERROR">>),
                  <<>>, TitleAfterStream(<<>>), "clarification_needed")

\* /stream-chat, lines 795-838: any other query type
StreamUnsupported ==
  /\ turns < MaxTurns
  /\ \E m \in UserMessages, r \in RouterOutputs :
       /\ StreamQueryType(r) \notin {"sql_query", "document_search", "customer_service",
                                     "clarification_needed"}
       /\ LET new == <<UserMsg(m), AssistantMsg(RefusalText)>>
          IN  EndTurn(r, TurnRecord("/stream-chat", m, m, StreamQueryType(r), 200,
                                 RefusalBody("FINAL_RESPONSE"),
                                 NoText, {"router"}, RoutingEvents \o <<"FINAL_RESPONSE">>),
                      new, TitleAfterStream(new), StreamQueryType(r))

(***************************************************************************)
(* The router conversation of a request: session_service sessions           *)
(***************************************************************************)
\* requests the router specification processes
MaxRequests == 2

\* session_id of a request body, NoText when absent
RequestSessionIds == { NoText, <<"s", "1">>, <<"s", "1", "-", "r", "o", "u", "t", "e", "r">> }

\* user_id of a request body, NoText when absent (UnifiedInquiryRequest)
RequestUserIds == { NoText, <<"u", "1">>, <<"u", "2">> }

\* str(uuid.uuid4()): the n-th value drawn, each different from the others
Uuid(n) == <<"u", "u", "i", "d", "-">> \o <<DigitChars[n + 1]>>

\* f"{session_id}-router"
RouterSessionId(session_id) == session_id \o <<"-", "r", "o", "u", "t", "e", "r">>

\* the key under which session_service holds a session of app "agents"
SessionKey(uid, session_id) == <<uid, RouterSessionId(session_id)>>

\* the session_service session ids the handler of endpoint ep derives from
\* session_id: lines 956-960 on /process-inquiry; on /stream-chat line 670
\* for the router and session_id itself in the pipelines (lines 144-157,
\* 316-329, 550-564)
AgentSessionIds(ep, session_id) ==
  IF ep = "/stream-chat"
    THEN {RouterSessionId(session_id), session_id}
    ELSE {RouterSessionId(session_id), session_id \o <<"-", "s", "q", "l">>,
          session_id \o <<"-", "d", "o", "c">>, session_id \o <<"-", "c", "s">>}

\* the user event Runner.run_async appends for new_message
UserEvent(message) == [author |-> "user", text |-> message, query_type |-> None]

\* the final response event of the router agent
RouterEvent(r) == [author |-> "router", text |-> NoText, query_type |-> r.query_type]

\* events of the router run for output r: the message, then the final
\* response when the agent produced one
RunEvents(message, r) ==
  IF r.final THEN <<UserEvent(message), RouterEvent(r)>> ELSE <<UserEvent(message)>>

\* get_session, then create_session when none is found: the events the
\* session holds when the router run starts
RouterContext(key) ==
  IF key \in DOMAIN router_sessions THEN router_sessions[key] ELSE <<>>

\* the request as the router saw it and the category the handler derived
RoutedRecord(ep, session_id, uid, message, context, query_type) ==
  [endpoint |-> ep, session_id |-> session_id, user_id |-> uid, message |-> message,
   context |-> context, query_type |-> query_type]

NoRouted == RoutedRecord(None, NoText, NoText, NoText, <<>>, None)

\* lines 947-1011 and 667-720 on the session store: the run appends its
\* events to the session of key
RouteRequest(ep, session_id, uid, message, r, query_type, drawn) ==
  /\ routed' = RoutedRecord(ep, session_id, uid, message,
                            RouterContext(SessionKey(uid, session_id)), query_type)
  /\ router_sessions' =
       [k \in DOMAIN router_sessions \cup {SessionKey(uid, session_id)} |->
          IF k = SessionKey(uid, session_id)
            THEN RouterContext(k) \o RunEvents(message, r)
            ELSE router_sessions[k]]
  /\ uuids' = uuids + drawn
  /\ requests' = requests + 1
  /\ UNCHANGED <<sqlvars, convvars, concvars>>

\* process_inquiry_unified lines 947-1011: user_id and session_id default
\* to fresh uuids, then the router runs in the session "<session_id>-router"
InquiryRoute ==
  /\ requests < MaxRequests
  /\ \E m \in UserMessages, s \in RequestSessionIds, u \in RequestUserIds,
        r \in RouterOutputs :
       LET uid        == IF u = NoText THEN Uuid(uuids) ELSE u
           drawn_user == IF u = NoText THEN 1 ELSE 0
           session_id == IF s = NoText THEN Uuid(uuids + drawn_user) ELSE s
           drawn      == drawn_user + (IF s = NoText THEN 1 ELSE 0)
       IN  RouteRequest("/process-inquiry", session_id, uid, m, r,
                        IF InquiryRouted(r) THEN QueryTypeOf(r) ELSE None, drawn)

\* stream_chat lines 894-895 and stream_with_routing lines 667-720: user_id
\* is required, session_id defaults to a fresh uuid
StreamRoute ==
  /\ requests < MaxRequests
  /\ \E m \in UserMessages, s \in RequestSessionIds, u \in RequestUserIds \ {NoText},
        r \in RouterOutputs :
       LET session_id == IF s = NoText THEN Uuid(uuids) ELSE s
           drawn      == IF s = NoText THEN 1 ELSE 0
       IN  RouteRequest("/stream-chat", session_id, u, m, r, StreamQueryType(r), drawn)

RouterInit ==
  /\ router_sessions = <<>>
  /\ uuids = 0
  /\ requests = 0
  /\ routed = NoRouted

(***************************************************************************)
(* Requests of one session in flight together.  The handlers are            *)
(* coroutines: each call of chat_history is awaited, and between two        *)
(* awaits of one request the event loop may run the other request.          *)
(***************************************************************************)
\* requests in flight on the session
NumHandlers == 2

Handlers == 1..NumHandlers

\* messages of the concurrent requests
ConcurrentMessages == { <<"a", "f", "i", "c", "a", "n", " ", "a", "r", "t">>, <<"Y", "e", "s">> }

\* the locals of a request handler
HandlerState(pc_, ep, message, pending_rewrite, message_count) ==
  [pc |-> pc_, endpoint |-> ep, message |-> message,
   pending_rewrite |-> pending_rewrite, message_count |-> message_count]

IdleHandler == HandlerState("idle", None, NoText, NoText, 0)

\* positions between the first chat-history call of a request and its last
InTurn(h) == handlers[h].pc \in {"analysing", "store_assistant", "streaming",
                                 "stream_store_assistant", "generate_title"}

\* a request reaches the endpoint ep
Arrive ==
  \E h \in Handlers, ep \in Endpoints, m \in ConcurrentMessages :
    /\ handlers[h].pc = "idle"
    /\ handlers' = [handlers EXCEPT ![h] = HandlerState("arrived", ep, m, NoText, 0)]
    /\ UNCHANGED <<chat_messages, title, last_routing, turns, turn>>
    /\ UNCHANGED <<sqlvars, routervars>>

\* process_inquiry_unified lines 1152-1164: recent history and the pending
\* rewrite found in it
InquiryReadHistory ==
  \E h \in Handlers :
    /\ handlers[h].pc = "arrived"
    /\ handlers[h].endpoint = "/process-inquiry"
    /\ handlers' = [handlers EXCEPT ![h].pc = "analysing",
                                    ![h].pending_rewrite = PendingRewrite(chat_messages)]
    /\ UNCHANGED <<chat_messages, title, last_routing, turns, turn>>
    /\ UNCHANGED <<sqlvars, routervars>>

\* lines 1166-1220 and 1271-1352: the turn ends without a chat-history
\* write (rephrase request, or analysis without needs_confirmation)
InquiryAnswer ==
  \E h \in Handlers :
    /\ handlers[h].pc = "analysing"
    /\ handlers' = [handlers EXCEPT ![h].pc = "done"]
    /\ UNCHANGED <<chat_messages, title, last_routing, turns, turn>>
    /\ UNCHANGED <<sqlvars, routervars>>

\* lines 1222-1243: needs_confirmation, the user message is stored
InquiryStoreUser ==
  \E h \in Handlers :
    /\ handlers[h].pc = "analysing"
    /\ ConfirmationResponse(handlers[h].pending_rewrite, handlers[h].message) # "reject"
    /\ chat_messages' =
         chat_messages \o <<UserMsg(IF ConfirmationResponse(handlers[h].pending_rewrite,
                                                            handlers[h].message) = "accept"
                                      THEN handlers[h].pending_rewrite
                                      ELSE handlers[h].message)>>
    /\ title' = IF title = NoText THEN <<"N", "e", "w", " ", "S", "e", "a", "r", "c", "h">> ELSE title
    /\ handlers' = [handlers EXCEPT ![h].pc = "store_assistant"]
    /\ UNCHANGED <<last_routing, turns, turn>>
    /\ UNCHANGED <<sqlvars, routervars>>

\* lines 1245-1252: the confirmation prompt is stored
InquiryStoreAssistant ==
  \E h \in Handlers, r \in Rewrites :
    /\ handlers[h].pc = "store_assistant"
    /\ chat_messages' = chat_messages \o <<AssistantMsg(ConfirmationMsg(r))>>
    /\ handlers' = [handlers EXCEPT ![h].pc = "done"]
    /\ UNCHANGED <<title, last_routing, turns, turn>>
    /\ UNCHANGED <<sqlvars, routervars>>

\* stream_chat lines 897-907: the session row, then message_count
StreamReadCount ==
  \E h \in Handlers :
    /\ handlers[h].pc = "arrived"
    /\ handlers[h].endpoint = "/stream-chat"
    /\ title' = TitleAtStart
    /\ handlers' = [handlers EXCEPT ![h].pc = "streaming",
                                    ![h].message_count = get_session_count(chat_messages)]
    /\ UNCHANGED <<chat_messages, last_routing, turns, turn>>
    /\ UNCHANGED <<sqlvars, routervars>>

\* the pipeline stores the user message first (lines 123-132, 303-312,
\* 531-540)
StreamStoreUser ==
  \E h \in Handlers :
    /\ handlers[h].pc = "streaming"
    /\ chat_messages' = chat_messages \o <<UserMsg(handlers[h].message)>>
    /\ handlers' = [handlers EXCEPT ![h].pc = "stream_store_assistant"]
    /\ UNCHANGED <<title, last_routing, turns, turn>>
    /\ UNCHANGED <<sqlvars, routervars>>

\* the pipeline stores its answer (lines 258-268), or ends with an ERROR
\* event and stores none
StreamStoreAssistant ==
  \E h \in Handlers, answered \in BOOLEAN :
    /\ handlers[h].pc = "stream_store_assistant"
    /\ chat_messages' = IF answered THEN chat_messages \o <<AssistantMsg(AnswerText)>>
                        ELSE chat_messages
    /\ handlers' = [handlers EXCEPT ![h].pc = "generate_title"]
    /\ UNCHANGED <<title, last_routing, turns, turn>>
    /\ UNCHANGED <<sqlvars, routervars>>

\* stream_with_title_generation lines 911-913
StreamGenerateTitle ==
  \E h \in Handlers :
    /\ handlers[h].pc = "generate_title"
    /\ title' = IF handlers[h].message_count = 0
                  THEN auto_generate_title(chat_messages, title)
                  ELSE title
    /\ handlers' = [handlers EXCEPT ![h].pc = "done"]
    /\ UNCHANGED <<chat_messages, last_routing, turns, turn>>
    /\ UNCHANGED <<sqlvars, routervars>>

ConcurrentInit ==
  handlers = [h \in Handlers |-> IdleHandler]

(***************************************************************************)
(* Specifications                                                           *)
(***************************************************************************)
ConvInit ==
  /\ \E s \in StoredSessions :
       /\ chat_messages = s.messages
       /\ title = s.title
  /\ last_routing = None
  /\ turns = 0
  /\ turn = NoTurn

Init == SqlInit /\ ConvInit /\ RouterInit /\ ConcurrentInit

\* the conversation protocol: turns on the two endpoints
Next ==
  \/ InquiryRoutingFailed
  \/ InquirySqlQuery
  \/ InquiryRejectRewrite
  \/ InquiryConfirmationPrompt
  \/ InquiryDocumentSearch
  \/ InquiryCustomerService
  \/ InquiryClarification
  \/ InquiryUnsupported
  \/ StreamSqlQuery
  \/ StreamDocumentSearch
  \/ StreamCustomerService
  \/ StreamClarification
  \/ StreamUnsupported

Spec == Init /\ [][Next]_vars

\* the SQL safety layer: calls of execute_query
SqlNext ==
  \/ CallExecuteQuery
  \/ Validate
  \/ GetPoolOk
  \/ GetPoolFail
  \/ AcquireOk
  \/ AcquireFail
  \/ FetchOk
  \/ FetchFail
  \/ ReturnToCaller
  \/ RequestDone

\* execute_query is called within one turn: the rows of the session do not
\* change while it runs, so one session is enough
SqlSpecInit ==
  /\ SqlInit
  /\ chat_messages = <<>>
  /\ title = NoText
  /\ last_routing = None
  /\ turns = 0
  /\ turn = NoTurn
  /\ RouterInit
  /\ ConcurrentInit

SqlSpec == SqlSpecInit /\ [][SqlNext]_vars

\* the router conversations: requests on the two endpoints
RouterNext ==
  \/ InquiryRoute
  \/ StreamRoute

RouterSpecInit ==
  /\ SqlInit
  /\ chat_messages = <<>>
  /\ title = NoText
  /\ last_routing = None
  /\ turns = 0
  /\ turn = NoTurn
  /\ RouterInit
  /\ ConcurrentInit

RouterSpec == RouterSpecInit /\ [][RouterNext]_vars

\* two requests of one session, interleaved at their awaits
ConcurrentNext ==
  \/ Arrive
  \/ InquiryReadHistory
  \/ InquiryAnswer
  \/ InquiryStoreUser
  \/ InquiryStoreAssistant
  \/ StreamReadCount
  \/ StreamStoreUser
  \/ StreamStoreAssistant
  \/ StreamGenerateTitle

ConcurrentSpecInit ==
  /\ SqlInit
  /\ \E s \in StoredSessions :
       /\ chat_messages = s.messages
       /\ title = s.title
  /\ last_routing = None
  /\ turns = 0
  /\ turn = NoTurn
  /\ RouterInit
  /\ ConcurrentInit

ConcurrentSpec == ConcurrentSpecInit /\ [][ConcurrentNext]_vars

(***************************************************************************)
(* Properties of execute_query, checked under SqlSpec                       *)
(***************************************************************************)
\* C1: when validate_sql rejects the generated statement, execute_query
\* returns (False, [], the validator's message) and has used neither the
\* pool, nor a connection, nor conn.fetch; the caller may be either endpoint
C1_RejectedNeverExecuted ==
  (/\ pc \in {"get_pool", "acquire", "fetch", "returned", "replied"}
   /\ ~validate_sql(generated.sql_query).is_valid)
  => /\ pc \in {"returned", "replied"}
     /\ result = Returned(FALSE, <<>>, validate_sql(generated.sql_query).error)
     /\ pool_calls = 0
     /\ acquire_calls = 0
     /\ fetch_calls = 0
     /\ modified_query = NoText

\* a rejected DELETE has been answered on /process-inquiry
C1_Witness ==
  /\ pc = "replied"
  /\ endpoint = "/process-inquiry"
  /\ generated.sql_query = <<"D", "E", "L", "E", "T", "E", " ", "F", "R", "O", "M", " ", "o", "r", "d", "e", "r", "s", " ", "W", "H", "E", "R", "E", " ", "i", "d", "=", "1">>
  /\ result = Returned(FALSE, <<>>, MsgBlocked(<<"D", "E", "L", "E", "T", "E">>))
  /\ reply.error = MsgBlocked(<<"D", "E", "L", "E", "T", "E">>)
  /\ acquire_calls = 0

\* C2: every statement handed to conn.fetch holds the condition
\* user_id = '<user_id of the call>'
C2_ExecutedScopedToPrincipal ==
  fetch_calls > 0
  => Contains(modified_query, <<"u", "s", "e", "r", "_", "i", "d", " ", "=", " ">> \o Quoted(user_id))

\* C3: a statement in which one of the fourteen mutating keywords occurs as
\* a whole word, in any letter case, is rejected with the blocked-keyword
\* message naming a keyword that occurs in it
C3_MutatingKeywordRejected ==
  LET MutatingKeywords ==
        { <<"I", "N", "S", "E", "R", "T">>, <<"U", "P", "D", "A", "T", "E">>, <<"D", "E", "L", "E", "T", "E">>, <<"D", "R", "O", "P">>, <<"A", "L", "T", "E", "R">>, <<"T", "R", "U", "N", "C", "A", "T", "E">>,
          <<"C", "R", "E", "A", "T", "E">>, <<"G", "R", "A", "N", "T">>, <<"R", "E", "V", "O", "K", "E">>, <<"E", "X", "E", "C", "U", "T", "E">>, <<"M", "E", "R", "G", "E">>, <<"R", "E", "P", "L", "A", "C", "E">>,
          <<"I", "N", "T", "O">>, <<"S", "E", "T">> }
      found == {kw \in MutatingKeywords : WordSearch(Upper(generated.sql_query), kw)}
  IN  (/\ pc \in {"get_pool", "acquire", "fetch", "returned", "replied"}
       /\ found # {})
      => /\ ~is_valid
         /\ result.success = FALSE
         /\ result.error.msg = "Blocked keyword detected"
         /\ result.error.arg \in found

\* a lower-case update has been rejected, the message naming UPDATE
C3_Witness ==
  /\ pc = "returned"
  /\ generated.sql_query = <<"u", "p", "d", "a", "t", "e", " ", "o", "r", "d", "e", "r", "s", " ", "s", "e", "t", " ", "s", "t", "a", "t", "u", "s", " ", "=", " ", "'", "x", "'">>
  /\ ~is_valid
  /\ result.error = MsgBlocked(<<"U", "P", "D", "A", "T", "E">>)

\* C4: a statement validate_sql accepts reads only whitelisted tables
C4_AcceptedReadsOnlyWhitelisted ==
  (/\ pc \in {"get_pool", "acquire", "fetch", "returned", "replied"}
   /\ is_valid)
  => \A t \in generated.reads : IsWhitelisted(t)

\* C5: a statement validate_sql accepts holds at most one ';' and is a
\* single statement
C5_NoChaining ==
  (/\ pc \in {"get_pool", "acquire", "fetch", "returned", "replied"}
   /\ is_valid)
  => /\ Count(generated.sql_query, ";") <= 1
     /\ generated.statements = 1

\* C6: the statement handed to conn.fetch has a LIMIT clause, every LIMIT
\* clause of it is at most max_results, and " LIMIT max_results" was
\* appended when the generated statement had no LIMIT clause
C6_ExecutedBoundedByCap ==
  LET LimitAt(s, i) ==
        /\ WordAt(s, <<"L", "I", "M", "I", "T">>, i)
        /\ SkipSpace(s, i + 5) > i + 5
        /\ SkipDigits(s, SkipSpace(s, i + 5)) > SkipSpace(s, i + 5)
      LimitClauses(s) == {i \in 1..Len(s) : LimitAt(s, i)}
      LimitValue(s, i) ==
        CharsToInt(SubSeq(s, SkipSpace(s, i + 5), SkipDigits(s, SkipSpace(s, i + 5)) - 1))
      executed == Upper(modified_query)
      appended == <<" ", "L", "I", "M", "I", "T", " ">> \o IntToChars(max_results)
  IN  fetch_calls > 0
      => /\ LimitClauses(executed) # {}
         /\ \A i \in LimitClauses(executed) : LimitValue(executed, i) <= max_results
         /\ LimitClauses(Upper(generated.sql_query)) = {}
              => MatchAt(executed, appended, Len(executed) - Len(appended) + 1)

\* C7: the statement handed to conn.fetch is again accepted by validate_sql
\* and names the same tables after FROM and JOIN as the generated statement
C7_RewriteKeepsValidity ==
  fetch_calls > 0
  => /\ validate_sql(modified_query).is_valid
     /\ Range(table_matches(Upper(modified_query)))
          = Range(table_matches(Upper(generated.sql_query)))

\* C8: rewriting the statement handed to conn.fetch once more, for the same
\* user_id, returns it unchanged
C8_RewriteIdempotent ==
  fetch_calls > 0
  => modified_query_of(modified_query, user_id) = modified_query

\* C9: no exception leaves execute_query; get_pool, pool.acquire and
\* conn.fetch are each called at most once per call; a failure of one of
\* them is returned as (False, [], "Query execution error: ...")
C9_NeverRaisesNeverRetries ==
  /\ ~raised
  /\ pool_calls <= 1
  /\ acquire_calls <= 1
  /\ fetch_calls <= 1
  /\ (pc \in {"returned", "replied"} /\ is_valid /\ ~result.success)
       => \E e \in ExceptionMessages : result = Returned(FALSE, <<>>, MsgExecutionError(e))

\* conn.fetch failed and the caller received the failure tuple
C9_Witness ==
  /\ pc = "replied"
  /\ is_valid
  /\ fetch_calls = 1
  /\ \E e \in ExceptionMessages :
       /\ result = Returned(FALSE, <<>>, MsgExecutionError(e))
       /\ reply.error = MsgExecutionError(e)

(***************************************************************************)
(* Properties of the conversation protocol, checked under Spec              *)
(***************************************************************************)
\* C10: a rewrite confirmation the next turn would recognise and a routing
\* decision clarification_needed are never outstanding together
C10_AtMostOnePending ==
  ~(/\ PendingRewrite(chat_messages) # NoText
    /\ last_routing = "clarification_needed")

\* C11: when the preceding turn answered with a confirmation prompt and the
\* message of this turn is in the affirmative set (lower-cased, trimmed),
\* a turn of /process-inquiry that reaches the document-search pipeline runs
\* it with the rewritten query of that prompt as the effective query,
\* whatever the session stored before
C11_ConfirmationRoundTrip ==
  [][ (/\ turn.query_type = "query_confirmation"
       /\ Strip(Lower(turn'.request)) \in AffirmativeSet
       /\ turn'.endpoint = "/process-inquiry"
       /\ "query_analysis" \in turn'.invoked)
      => turn'.effective_query = turn.body.rewritten_query ]_vars

\* C12: a pending rewrite is consumed by one turn: after a turn that took an
\* affirmative answer and replaced it by the pending rewrite, without a new
\* prompt being issued, a later 'yes', 'no' or 'original' message is handled
\* as an ordinary message, neither replaced by a rewrite or an earlier query
\* nor answered with the request to rephrase
C12_PendingConsumedOnce ==
  [][ (/\ turn.endpoint = "/process-inquiry"
       /\ Strip(Lower(turn.request)) \in AffirmativeSet
       /\ turn.message # turn.request
       /\ turn.query_type # "query_confirmation"
       /\ \/ Strip(Lower(turn'.request)) \in AffirmativeSet \cup NegativeSet
          \/ Contains(Strip(Lower(turn'.request)), <<"o", "r", "i", "g", "i", "n", "a", "l">>))
      => (/\ turn'.message = turn'.request
          /\ turn'.body.text # <<"P", "l", "e", "a", "s", "e", " ", "r", "e", "p", "h", "r", "a", "s", "e", " ", "y", "o", "u", "r", " ", "s", "e", "a", "r", "c", "h", " ", "q", "u", "e", "r", "y", ":">>) ]_vars

\* C13: when the session holds a pending rewrite and the message of the turn
\* is in the negative set (lower-cased, trimmed), /process-inquiry answers
\* clarification_needed with the request to rephrase, and the router is not
\* invoked in that turn
C13_RejectionRoundTrip ==
  [][ (/\ PendingRewrite(chat_messages) # NoText
       /\ turn'.endpoint = "/process-inquiry"
       /\ Strip(Lower(turn'.request)) \in NegativeSet)
      => (/\ turn'.query_type = "clarification_needed"
          /\ turn'.body.text = <<"P", "l", "e", "a", "s", "e", " ", "r", "e", "p", "h", "r", "a", "s", "e", " ", "y", "o", "u", "r", " ", "s", "e", "a", "r", "c", "h", " ", "q", "u", "e", "r", "y", ":">>
          /\ "router" \notin turn'.invoked) ]_vars

\* the user messages of a log that are no confirmation keyword: neither in
\* the affirmative nor in the negative set, nor holding 'original'
\* (lower-cased, trimmed)
C14_QueryTurns(messages) ==
  {i \in DOMAIN messages :
     /\ messages[i].role = "user"
     /\ Strip(Lower(messages[i].content)) \notin AffirmativeSet \cup NegativeSet
     /\ ~Contains(Strip(Lower(messages[i].content)), <<"o", "r", "i", "g", "i", "n", "a", "l">>)}

\* C14: when the session holds a pending rewrite and the message of the turn
\* contains 'original', a turn of /process-inquiry that reaches the
\* document-search pipeline runs it with the text of the most recent earlier
\* user message of the session that is no confirmation keyword
C14_UseOriginal ==
  [][ (/\ PendingRewrite(chat_messages) # NoText
       /\ C14_QueryTurns(chat_messages) # {}
       /\ turn'.endpoint = "/process-inquiry"
       /\ Contains(Strip(Lower(turn'.request)), <<"o", "r", "i", "g", "i", "n", "a", "l">>)
       /\ "query_analysis" \in turn'.invoked)
      => turn'.effective_query
           = chat_messages[Max(C14_QueryTurns(chat_messages))].content ]_vars

\* C15: after a turn whose routing decision is clarification_needed, on
\* either endpoint, the log of the session ends with the user message of the
\* turn followed by an assistant message that holds the clarification
\* question, the client was answered with that question, and nothing but
\* the router was invoked
C15_ClarificationTurn ==
  last_routing = "clarification_needed" =>
    /\ turn.query_type = "clarification_needed"
    /\ turn.invoked \subseteq {"router"}
    /\ Len(chat_messages) >= 2
    /\ chat_messages[Len(chat_messages) - 1] = UserMsg(turn.request)
    /\ chat_messages[Len(chat_messages)] = AssistantMsg(turn.body.text)

\* C16: a turn whose routing decision is unsupported answers with query type
\* 'unsupported', the fixed refusal text and exactly the three supported
\* categories sql_query, document_search, customer_service; it invokes
\* nothing but the router and stores no confirmation prompt
C16_UnsupportedRefused ==
  [][ last_routing' = "unsupported" =>
        /\ turn'.query_type = "unsupported"
        /\ turn'.body.text = <<"I", "'", "m", " ", "s", "o", "r", "r", "y", ",", " ", "b", "u", "t", " ", "I", " ", "c", "a", "n", " ", "o", "n", "l", "y", " ", "h", "a", "n", "d", "l", "e", " ", "S", "Q", "L", " ", "q", "u", "e", "r", "i", "e", "s", ",", " ", "d", "o", "c", "u", "m", "e", "n", "t", " ", "s", "e", "a", "r", "c", "h", " ", "q", "u", "e", "r", "i", "e", "s", ",", " ", "a", "n", "d", " ", "c", "u", "s", "t", "o", "m", "e", "r", " ", "s", "e", "r", "v", "i", "c", "e", " ", "i", "n", "q", "u", "i", "r", "i", "e", "s", ".", " ", "Y", "o", "u", "r", " ", "q", "u", "e", "r", "y", " ", "d", "o", "e", "s", "n", "'", "t", " ", "f", "i", "t", " ", "i", "n", "t", "o", " ", "a", "n", "y", " ", "o", "f", " ", "t", "h", "e", "s", "e", " ", "c", "a", "t", "e", "g", "o", "r", "i", "e", "s", ".">>
        /\ turn'.body.supported_types = <<"sql_query", "document_search", "customer_service">>
        /\ turn'.invoked \subseteq {"router"}
        /\ \A i \in (Len(chat_messages) + 1)..Len(chat_messages') :
             ~(/\ chat_messages'[i].role = "assistant"
               /\ Contains(chat_messages'[i].content, <<"D", "i", "d", " ", "y", "o", "u", " ", "m", "e", "a", "n", ":">>)) ]_vars

\* a /stream-chat turn routed as unsupported has stored its refusal
C16_Witness ==
  /\ last_routing = "unsupported"
  /\ turn.endpoint = "/stream-chat"
  /\ turn.events # <<>>
  /\ Len(chat_messages) >= 2
  /\ chat_messages[Len(chat_messages)] = AssistantMsg(turn.body.text)

\* C17: a classification failure never fails the turn: a turn for which the
\* router produced no routing decision (no final output, or output that is
\* not JSON) is answered with status 200 by the customer-service pipeline,
\* on /stream-chat and on /process-inquiry
C17_ClassificationFailureFallsBack ==
  (turns > 0 /\ last_routing = None) =>
    /\ "customer_service" \in turn.invoked
    /\ turn.status = 200

\* C18: nothing delivered to the client holds the text of an internal
\* exception: the error of a response body or stream event is a fixed
\* template, the same whatever the message of the exception raised
C18_NoExceptionText ==
  turn.body.error.arg \notin ExceptionMessages

(***************************************************************************)
(* Properties of the router conversation, checked under RouterSpec          *)
(***************************************************************************)
\* C19: after a request of a session was answered with a clarification
\* question, the router run of the next request with the same session_id
\* starts with a context that holds the earlier message followed by the
\* router's clarification decision
C19_ClarificationContextCarriesOver ==
  [][ (/\ routed.endpoint = "/process-inquiry"
       /\ routed.query_type = "clarification_needed"
       /\ routed'.session_id = routed.session_id)
      => \E i \in 1..(Len(routed'.context) - 1) :
           /\ routed'.context[i] = UserEvent(routed.message)
           /\ routed'.context[i + 1].author = "router"
           /\ routed'.context[i + 1].query_type = "clarification_needed" ]_vars

(***************************************************************************)
(* Properties of the session title, checked under Spec                      *)
(***************************************************************************)
\* the first 50 characters of a message, '...' appended when it is longer
C20_TitleOf(message) ==
  IF Len(message) > 50 THEN SubSeq(message, 1, 50) \o <<".", ".", ".">> ELSE message

\* C20: a /stream-chat turn on a session that held no message before it
\* sets the title to the first 50 characters of its message ('...' appended
\* when longer); a turn on a session that holds messages leaves the title
C20_TitleFromFirstMessage ==
  [][ (turn'.endpoint = "/stream-chat" /\ turns' = turns + 1)
      => IF Len(chat_messages) = 0
           THEN title' = C20_TitleOf(turn'.request)
           ELSE title' = title ]_vars

(***************************************************************************)
(* Order of the rules of validate_sql, checked under SqlSpec                *)
(***************************************************************************)
\* C21 as stated: a rejected statement carries the message of the first
\* rule it violates in the order (1) begins with SELECT, (2) no mutating
\* keyword, (3) table whitelist, (4) at most one ';'
C21_SelectRuleFirst ==
  (pc = "returned" /\ ~is_valid) =>
    result.error.msg =
      (IF ~StartsWithSelect(Upper(generated.sql_query))
         THEN "Only SELECT queries are allowed"
       ELSE IF BlockedKeywordRule(generated.sql_query)
         THEN "Blocked keyword detected"
       ELSE IF FirstForeignTable(Upper(generated.sql_query)) # NoText
         THEN "Table is not in the whitelist"
       ELSE "Multiple statements detected")

\* C21 amended: a rejected statement carries the message of the first rule
\* it violates in the order (1) no blocked keyword, (2) begins with SELECT,
\* (3) table whitelist, (4) at most one ';'
C21_KeywordRuleFirst ==
  (pc = "returned" /\ ~is_valid) =>
    result.error.msg =
      (IF BlockedKeywordRule(generated.sql_query)
         THEN "Blocked keyword detected"
       ELSE IF ~StartsWithSelect(Upper(generated.sql_query))
         THEN "Only SELECT queries are allowed"
       ELSE IF FirstForeignTable(Upper(generated.sql_query)) # NoText
         THEN "Table is not in the whitelist"
       ELSE "Multiple statements detected")

\* a rejected statement that neither begins with SELECT nor is free of
\* blocked keywords
C21_Witness ==
  /\ pc = "returned"
  /\ ~is_valid
  /\ ~StartsWithSelect(Upper(generated.sql_query))
  /\ BlockedKeywordRule(generated.sql_query)
  /\ result.error.msg = "Blocked keyword detected"

(***************************************************************************)
(* Properties of the rewritten WHERE clause, checked under SqlSpec          *)
(***************************************************************************)
\* C22: when the validated statement has a WHERE clause and no principal
\* filter, the statement handed to conn.fetch is the input with
\* " user_id = '<id>' AND" inserted directly after the first WHERE, and
\* every row it selects has user_id = <id>, whatever the shape of the
\* existing condition
C22_FilterConjoinedWithCondition ==
  LET w == WhereMatch(Upper(generated.sql_query))
  IN  (/\ fetch_calls > 0
       /\ user_id \in { <<"u", "1">>, <<"u", "2">> }
       /\ w # 0
       /\ ~UserIdAlreadyPresent(generated.sql_query))
      => /\ inject_user_filter(generated.sql_query, user_id)
              = SubSeq(generated.sql_query, 1, w + 4)
                \o <<" ", "u", "s", "e", "r", "_", "i", "d", " ", "=", " ", "'">> \o user_id \o <<"'", " ", "A", "N", "D">>
                \o SubSeq(generated.sql_query, w + 5, Len(generated.sql_query))
         /\ \A row \in SelectedRows(modified_query) : row[<<"u", "s", "e", "r", "_", "i", "d">>] = user_id

(***************************************************************************)
(* Further properties of the conversation protocol, checked under Spec      *)
(***************************************************************************)
\* C23: a turn whose query analysis reported needs_confirmation answers
\* with query_confirmation, has stored the user message followed by the
\* 'Did you mean: ...' message, and ran neither retrieval nor result
\* processing, on /process-inquiry and on /stream-chat
C23_ConfirmationEndsTurn ==
  turn.needs_confirmation =>
    /\ turn.query_type = "query_confirmation"
    /\ turn.invoked \cap {"retrieval", "result_processing"} = {}
    /\ Len(chat_messages) >= 2
    /\ chat_messages[Len(chat_messages) - 1].role = "user"
    /\ chat_messages[Len(chat_messages)].role = "assistant"
    /\ Contains(chat_messages[Len(chat_messages)].content, <<"D", "i", "d", " ", "y", "o", "u", " ", "m", "e", "a", "n", ":">>)

\* C24: a turn whose generated statement was rejected by validate_sql
\* reports the validator's message as an error and leaves the chat history
\* of the session as it was
C24_RejectedStatementLeavesSession ==
  [][ (/\ turns' = turns + 1
       /\ turn'.body.error.msg \in {"Blocked keyword detected",
                                    "Only SELECT queries are allowed",
                                    "Table is not in the whitelist",
                                    "Multiple statements detected"})
      => (/\ "database" \notin turn'.invoked
          /\ chat_messages' = chat_messages) ]_vars

\* C25: requests of one session are serialised: while one request is
\* between its first chat-history call and its last, no other request of
\* the session is between its own
C25_TurnsSerialised ==
  \A h1 \in Handlers, h2 \in Handlers :
    h1 # h2 => ~(InTurn(h1) /\ InTurn(h2))

\* the decision of the turn with its confidence replaced by c
C26_WithConfidence(c) == [turn.decision EXCEPT !.confidence = c]

\* C26: the confidence of the routing decision never influences dispatch.
\* The branch a turn took is the one every other confidence value gives for
\* the same decision, and confidence reaches the client only as the
\* confidence field of the router's clarification response
C26_ConfidenceNeverDispatches ==
  turn # NoTurn =>
    /\ \A c \in Confidences :
         /\ InquiryRouted(C26_WithConfidence(c)) = InquiryRouted(turn.decision)
         /\ turn.endpoint = "/stream-chat"
              => last_routing = StreamQueryType(C26_WithConfidence(c))
         /\ (turn.endpoint = "/process-inquiry" /\ InquiryRouted(turn.decision))
              => last_routing = QueryTypeOf(C26_WithConfidence(c))
    /\ turn.body.confidence # None =>
         /\ turn.endpoint = "/process-inquiry"
         /\ turn.query_type = "clarification_needed"
         /\ \/ /\ last_routing = "clarification_needed"
               /\ turn.body.confidence =
                    (IF turn.decision.confidence = None THEN "low"
                     ELSE turn.decision.confidence)
            \/ /\ last_routing = "document_search"
               /\ turn.body = RephraseBody

\* a low-confidence and a high-confidence decision have both been dispatched
\* to a pipeline, and a clarification has passed the confidence through
C26_Witness ==
  /\ turn # NoTurn
  /\ turn.endpoint = "/process-inquiry"
  /\ last_routing = "clarification_needed"
  /\ turn.decision.confidence = "high"
  /\ turn.body.confidence = "high"

\* C27: two requests of one user with distinct session ids derive
\* agent-session keys that never coincide
C27_SessionKeysDisjoint ==
  [][ (/\ routed.endpoint # None
       /\ routed'.user_id = routed.user_id
       /\ routed'.session_id # routed.session_id)
      => AgentSessionIds(routed.endpoint, routed.session_id)
           \cap AgentSessionIds(routed'.endpoint, routed'.session_id) = {} ]_vars

\* C28: the events of every /stream-chat turn hold exactly one terminal
\* event, FINAL_RESPONSE or ERROR, and it is the last event
C28_OneTerminalEventLast ==
  (turn # NoTurn /\ turn.endpoint = "/stream-chat") =>
    /\ Cardinality({i \in DOMAIN turn.events :
                      turn.events[i] \in {"FINAL_RESPONSE", "ERROR"}}) = 1
    /\ turn.events[Len(turn.events)] \in {"FINAL_RESPONSE", "ERROR"}

\* C29: both endpoints dispatch a parsed routing decision by the same table,
\* and on the data-query branch both take the statement from the same final
\* response of the generation run
C29_SameDispatchAndStatement ==
  turn # NoTurn =>
    /\ InquiryRouted(turn.decision)
         => StreamQueryType(turn.decision) = QueryTypeOf(turn.decision)
    /\ last_routing = "sql_query"
         => /\ turn.statement = StreamGenerated(turn.generation).sql_query
            /\ turn.statement = InquiryGenerated(turn.generation).sql_query

\* C30: after any sequence of completed turns the stored chat history
\* alternates user and assistant messages strictly and ends with an
\* assistant message
C30_HistoryAlternates ==
  turns > 0 =>
    /\ \A i \in DOMAIN chat_messages :
         chat_messages[i].role = (IF i % 2 = 1 THEN "user" ELSE "assistant")
    /\ chat_messages # <<>> => chat_messages[Len(chat_messages)].role = "assistant"

====
